---- MODULE Spec2Model ----
(***************************************************************************)
(* A model of galena's update-scheduling and subscription core:            *)
(*   src/src/Galena/Scheduler.ts  (Scheduler)                              *)
(*   src/src/Galena/State.ts      (State extends Scheduler, lines 254-567) *)
(*   src/src/Galena/Galena.ts     (Galena, the container)                  *)
(* JavaScript runs on one thread: a macrotask (a script turn or a timer    *)
(* callback) runs to completion, then the microtask queue is drained, then *)
(* the next macrotask starts.  A flush (EventEmitter.emit) calls the       *)
(* subscribers synchronously, and a subscriber may itself call into the    *)
(* unit again; the stack of flushes in progress is therefore part of the   *)
(* state.                                                                  *)
(***************************************************************************)
EXTENDS Integers, Sequences, FiniteSets, TLC

\* ---------------------------------------------------------------- bounds
MaxUnits == 2
MaxMut == 3
MaxIDs == 2
MaxGlobal == 2
MaxDepth == 2
MaxPending == 1
MaxContainerMut == 2
MaxContainerSubs == 1
MaxDuplicateMut == 1
MaxInstances == 2
MaxMiddleware == 3

\* ------------------------------------------------------ program constants
IMMEDIATE == 1
MICROTASK == 2
BATCHED == 3

Names == 1..MaxUnits
Priorities == {IMMEDIATE, MICROTASK, BATCHED}

\* The middleware list handed to the Galena constructor: M1 first, then M2.
ContainerMiddleware == <<1, 2>>

VARIABLES
  order,          \* Galena.state: the names of the composed units, in creation order
  instances,      \* per name: the State object Galena.state holds (0: none), and the
                  \* State objects composeState returned to its callers
  state,          \* State.state per unit: [ref |-> object identity, val |-> contents]
  initialState,   \* State.initialState per unit
  middleware,     \* State.middleware per unit
  nested,         \* per unit: the contents of the structure nested inside the initial value
  subs,           \* the unit's emitter storage: a set of [id, listener]
  nextID,         \* the unit's emitter ID counter
  task,           \* Scheduler.task per unit: 0 is null, else the mutation that made the closure
  schedule,       \* Scheduler.schedule per unit: 0 is null, else the timer handle
  timers,         \* the host's table of live timers per unit (handles not yet fired or cleared)
  subscriptions,  \* Galena.subscriptions: ID -> [tracked, list of <<unit, per-unit ID>>]
  nextGlobal,     \* Galena.IDs (AutoIncrementingID)
  issued,         \* the per-unit subscription IDs returned to the caller of subscribe
  stack,          \* the flushes in progress, innermost last
  micro,          \* the microtask queue
  turn,           \* "script" while top-level code runs, else "idle"
  pending,        \* the mutations whose func returned a promise that has not settled
  nmut,           \* the number of mutations made so far
  dirty,          \* per unit: a successful mutation has not been followed by the start of a flush
  last            \* a description of the step just taken

vars == <<order, instances, state, initialState, middleware, nested, subs, nextID, task, schedule,
          timers, subscriptions, nextGlobal, issued, stack, micro, turn, pending,
          nmut, dirty, last>>

unitVars == <<state, initialState, middleware, nested>>
emitterVars == <<subs, nextID, issued>>
schedulerVars == <<task, schedule, timers>>
galenaVars == <<order, instances, subscriptions, nextGlobal>>

\* ---------------------------------------------------------------- helpers
Range(s) == {s[i] : i \in 1..Len(s)}
Units == Range(order)
Top == stack[Len(stack)]
Min(S) == CHOOSE x \in S : \A y \in S : x <= y

\* The number of times event e occurs in the trace tr.
Count(tr, e) == Cardinality({i \in DOMAIN tr : tr[i] = e})

\* What has happened to each unit so far, when it is counted: the calls of each
\* middleware's onBeforeUpdate and onUpdate, the mutations that succeeded and
\* those that failed (func threw, or its promise rejected), the flushes that
\* have returned and the calls of subscribers.  NoCount: it is not counted.
NoCount == <<>>
ZeroCount ==
  [u \in Names |-> [before |-> [m \in Range(ContainerMiddleware) |-> 0],
                    after |-> [m \in Range(ContainerMiddleware) |-> 0],
                    mutations |-> 0, failed |-> 0, flushes |-> 0, calls |-> 0]]

\* The counts after a step `op` of unit u with the events tr.  The trace of a
\* settle step starts with the onBeforeUpdate events of the call that started
\* the mutation, which were counted then.
Counted(c, op, u, ok, tr) ==
  IF c = NoCount \/ u \notin Names THEN c
  ELSE [c EXCEPT ![u] =
         [before |-> [m \in Range(ContainerMiddleware) |->
                        @.before[m] + IF op = "settle" THEN 0
                                      ELSE Count(tr, <<"onBeforeUpdate", m>>)],
          after |-> [m \in Range(ContainerMiddleware) |->
                       @.after[m] + Count(tr, <<"onUpdate", m>>)],
          mutations |-> @.mutations + IF op \in {"mutation", "reset", "settle"} /\ ok
                                        THEN 1 ELSE 0,
          failed |-> @.failed + IF op \in {"mutation", "settle"} /\ ~ok THEN 1 ELSE 0,
          flushes |-> @.flushes + IF op = "emitDone" THEN 1 ELSE 0,
          calls |-> @.calls + IF op = "notify" THEN 1 ELSE 0]]

\* What a step leaves in `last`: the operation, its unit, priority (or lane),
\* the mutation or subscription it is about, whether it completed, the events
\* it produced in order, the exception it raised, the unit's scheduler as
\* the step found it, `destroyed`, the subscriptions <<unit, ID>> that a
\* destroy of the container has removed so far, and `count`, the counts so far.
StepOf(op, u, p, id, ok, tr, r, d, c) ==
  [op |-> op, unit |-> u, priority |-> p, id |-> id, ok |-> ok, trace |-> tr,
   raised |-> r, destroyed |-> d, count |-> c,
   was |-> IF u \in Names
             THEN [task |-> task[u], schedule |-> schedule[u], dirty |-> dirty[u],
                   micro |-> Len(micro), depth |-> Len(stack), pending |-> Len(pending),
                   subs |-> subs[u]]
             ELSE [task |-> 0, schedule |-> 0, dirty |-> FALSE,
                   micro |-> Len(micro), depth |-> Len(stack), pending |-> Len(pending),
                   subs |-> {}]]

\* A step that is not a destroy: what was destroyed stays as it was.
Step(op, u, p, id, ok, tr, r) ==
  StepOf(op, u, p, id, ok, tr, r, last.destroyed, Counted(last.count, op, u, ok, tr))

\* Top-level code of a script turn is running.
TopLevel == stack = <<>> /\ turn = "script"
\* Some user code is running: top-level code, or the subscriber a flush is calling.
Running == TopLevel \/ (stack # <<>> /\ Top.cursor > 0)

\* ------------------------------------------------------------- State.clone
\* clone returning the object it was given.
CloneSame(st, ref) == st

\* State.clone: arrays, sets, maps and records are shallow-copied into a new
\* object `ref`; the contents are the same: the entries of the copy are the
\* entries of the original, so a structure nested inside the value is shared
\* by both (the unit's `nested`).
Clone(st, ref) == [ref |-> ref, val |-> st.val]

\* ------------------------------------------------------- State.lifeCycleEvent
\* lifeCycleEvent walking the middleware from the first to the last.
LifeCycleEventForward(mw, event) ==
  [i \in 1..Len(mw) |-> <<event, mw[i]>>]

\* for (i = maxIndex; i > -1; i--) middleware[i][event](this)
LifeCycleEvent(mw, event) ==
  [i \in 1..Len(mw) |-> <<event, mw[Len(mw) + 1 - i]>>]

\* ------------------------------------------------------------ EventEmitter
\* emitter.on(name, callback): a fresh ID for the listener.
On(S, n, listener) == S \cup {[id |-> n + 1, listener |-> listener]}
\* emitter.off removing every listener of the topic.
OffAll(S, id) == {}

\* emitter.off leaving the listener in place.
OffNothing(S, id) == S

\* emitter.off(name, ID)
Off(S, id) == {s \in S : s.id # id}
\* emit calling the first listener of the topic only.
ToCallFirstOnly(S, cursor) ==
  IF cursor = 0 /\ S # {} THEN {Min({s.id : s \in S})} ELSE {}

\* The subscribers a flush has yet to call: Map iteration is live and in
\* insertion order, so entries removed are skipped and entries added are visited.
ToCall(S, cursor) == {s.id : s \in {x \in S : x.id > cursor}}

\* --------------------------------------------------------------- Scheduler
\* Scheduler.clearSchedule: clearTimeout(this.schedule); this.schedule = null
ClearSchedule(s) == 0
\* clearSchedule forgetting the handle without cancelling the timer.
ClearTimeoutNothing(T, s) == T

ClearTimeout(T, s) == T \ {s}

\* The batched branch returning early whenever a task is recorded.
CoalescedOnTask(t, s) == t # 0

\* The batched branch always returning early: no call starts a timer.
CoalescedAlways(t, s) == TRUE

\* The batched branch never returning early: every call restarts the timer.
CoalescedNever(t, s) == FALSE

\* Scheduler.scheduleTask, BACKGROUND/default branch: if (this.task && this.schedule) return
Coalesced(t, s) == t # 0 /\ s # 0

\* A task closure that captured the state when the task was made.
TaskArgSnapshot(live, t) == [ref |-> live.ref, val |-> t]

\* The task closure of State.scheduleUpdate: () => emitter.emit(name, this.state)
\* reads the unit's state when it runs: `live` is the state at that time, t the
\* mutation that made the closure.
TaskArg(live, t) == live

\* A frame of the stack: emitter.emit(name, arg) in progress for `unit`, called
\* by executeTasks on `lane` (the priority that reached it) for the task of
\* mutation `mut`, having called the subscribers `called`, the last one `cursor`;
\* `present` are the IDs subscribed when the emit started.
Frame(u, lane, id, st) ==
  [unit |-> u, lane |-> lane, mut |-> id, cursor |-> 0, arg |-> st.ref, aval |-> st.val,
   called |-> <<>>, present |-> {x.id : x \in subs[u]}]

\* An in-place write to the object `ref` of unit u shows in every flush that
\* passed that object to its subscribers.
Touch(stk, u, ref, v) ==
  [i \in 1..Len(stk) |->
     IF stk[i].unit = u /\ stk[i].arg = ref THEN [stk[i] EXCEPT !.aval = v] ELSE stk[i]]

\* executeTasks without its clearSchedule() call.
ExecuteTasksKeepsTimer(u, t, lane, stk, T, live) ==
  /\ schedule' = schedule
  /\ timers' = [timers EXCEPT ![u] = T]
  /\ IF t # 0
       THEN /\ stack' = Append(stk, Frame(u, lane, t, TaskArg(live, t)))
            /\ task' = [task EXCEPT ![u] = t]
            /\ dirty' = [dirty EXCEPT ![u] = FALSE]
       ELSE /\ stack' = stk
            /\ task' = [task EXCEPT ![u] = 0]
            /\ UNCHANGED dirty

\* executeTasks notifying whether or not a task is recorded.
ExecuteTasksAlways(u, t, lane, stk, T, live) ==
  /\ schedule' = [schedule EXCEPT ![u] = ClearSchedule(@)]
  /\ timers' = [timers EXCEPT ![u] = ClearTimeout(T, schedule[u])]
  /\ stack' = Append(stk, Frame(u, lane, t, TaskArg(live, t)))
  /\ task' = [task EXCEPT ![u] = t]
  /\ dirty' = [dirty EXCEPT ![u] = FALSE]

\* Scheduler.executeTasks up to the call of the task: clearSchedule(); this.task?.()
\* (this.task = null follows when the emit returns: EmitDone).
ExecuteTasks(u, t, lane, stk, T, live) ==
  /\ schedule' = [schedule EXCEPT ![u] = ClearSchedule(@)]
  /\ timers' = [timers EXCEPT ![u] = ClearTimeout(T, schedule[u])]
  /\ IF t # 0
       THEN /\ stack' = Append(stk, Frame(u, lane, t, TaskArg(live, t)))
            /\ task' = [task EXCEPT ![u] = t]
            /\ dirty' = [dirty EXCEPT ![u] = FALSE]
       ELSE /\ stack' = stk
            /\ task' = [task EXCEPT ![u] = 0]
            /\ UNCHANGED dirty

\* scheduleTask with IMMEDIATE falling through to the batched branch.
ScheduleTaskImmediateBatched(u, id, priority, stk, live) ==
  CASE priority = MICROTASK ->
         /\ micro' = Append(micro, [unit |-> u, mut |-> id])
         /\ dirty' = [dirty EXCEPT ![u] = TRUE]
         /\ stack' = stk
         /\ UNCHANGED schedulerVars
    [] OTHER ->
         /\ IF Coalesced(task[u], schedule[u])
              THEN UNCHANGED schedulerVars
              ELSE /\ task' = [task EXCEPT ![u] = id]
                   /\ schedule' = [schedule EXCEPT ![u] = id]
                   /\ timers' = [timers EXCEPT ![u] = ClearTimeout(@, schedule[u]) \cup {id}]
         /\ dirty' = [dirty EXCEPT ![u] = TRUE]
         /\ stack' = stk
         /\ UNCHANGED micro

\* scheduleTask with MICROTASK running the task before it returns.
ScheduleTaskMicrotaskSync(u, id, priority, stk, live) ==
  CASE priority = IMMEDIATE ->
         /\ ExecuteTasks(u, id, IMMEDIATE, stk, timers[u], live)
         /\ UNCHANGED micro
    [] priority = MICROTASK ->
         /\ ExecuteTasks(u, id, MICROTASK, stk, timers[u], live)
         /\ UNCHANGED micro
    [] OTHER ->
         /\ IF Coalesced(task[u], schedule[u])
              THEN UNCHANGED schedulerVars
              ELSE /\ task' = [task EXCEPT ![u] = id]
                   /\ schedule' = [schedule EXCEPT ![u] = id]
                   /\ timers' = [timers EXCEPT ![u] = ClearTimeout(@, schedule[u]) \cup {id}]
         /\ dirty' = [dirty EXCEPT ![u] = TRUE]
         /\ stack' = stk
         /\ UNCHANGED micro

\* scheduleTask with MICROTASK coalescing like the batched branch: a microtask
\* already queued for the unit stands for the new one.
ScheduleTaskMicrotaskCoalesced(u, id, priority, stk, live) ==
  CASE priority = IMMEDIATE ->
         /\ ExecuteTasks(u, id, IMMEDIATE, stk, timers[u], live)
         /\ UNCHANGED micro
    [] priority = MICROTASK ->
         /\ micro' = IF \E i \in DOMAIN micro : micro[i].unit = u
                       THEN micro
                       ELSE Append(micro, [unit |-> u, mut |-> id])
         /\ dirty' = [dirty EXCEPT ![u] = TRUE]
         /\ stack' = stk
         /\ UNCHANGED schedulerVars
    [] OTHER ->
         /\ IF Coalesced(task[u], schedule[u])
              THEN UNCHANGED schedulerVars
              ELSE /\ task' = [task EXCEPT ![u] = id]
                   /\ schedule' = [schedule EXCEPT ![u] = id]
                   /\ timers' = [timers EXCEPT ![u] = ClearTimeout(@, schedule[u]) \cup {id}]
         /\ dirty' = [dirty EXCEPT ![u] = TRUE]
         /\ stack' = stk
         /\ UNCHANGED micro

\* scheduleTask with task and schedule as static fields, shared by all units.
ScheduleTaskShared(u, id, priority, stk, live) ==
  CASE priority = IMMEDIATE ->
         /\ ExecuteTasks(u, id, IMMEDIATE, stk, timers[u], live)
         /\ UNCHANGED micro
    [] priority = MICROTASK ->
         /\ micro' = Append(micro, [unit |-> u, mut |-> id])
         /\ dirty' = [dirty EXCEPT ![u] = TRUE]
         /\ stack' = stk
         /\ UNCHANGED schedulerVars
    [] OTHER ->
         /\ IF Coalesced(task[u], schedule[u])
              THEN UNCHANGED schedulerVars
              ELSE /\ task' = [v \in Names |-> id]
                   /\ schedule' = [v \in Names |-> id]
                   /\ timers' = [timers EXCEPT ![u] = ClearTimeout(@, schedule[u]) \cup {id}]
         /\ dirty' = [dirty EXCEPT ![u] = TRUE]
         /\ stack' = stk
         /\ UNCHANGED micro

\* Scheduler.scheduleTask(task, priority)
ScheduleTask(u, id, priority, stk, live) ==
  CASE priority = IMMEDIATE ->
         /\ ExecuteTasks(u, id, IMMEDIATE, stk, timers[u], live)
         /\ UNCHANGED micro
    [] priority = MICROTASK ->
         /\ micro' = Append(micro, [unit |-> u, mut |-> id])
         /\ dirty' = [dirty EXCEPT ![u] = TRUE]
         /\ stack' = stk
         /\ UNCHANGED schedulerVars
    [] OTHER ->
         /\ IF Coalesced(task[u], schedule[u])
              THEN UNCHANGED schedulerVars
              ELSE /\ task' = [task EXCEPT ![u] = id]
                   /\ schedule' = [schedule EXCEPT ![u] = id]
                   /\ timers' = [timers EXCEPT ![u] = ClearTimeout(@, schedule[u]) \cup {id}]
         /\ dirty' = [dirty EXCEPT ![u] = TRUE]
         /\ stack' = stk
         /\ UNCHANGED micro

\* ------------------------------------------------------------------- State
\* scheduleUpdate handing the task to the scheduler before the onUpdate hooks.
ScheduleUpdateTaskFirst(u, id, priority, stk, tr, op, live) ==
  /\ last' = Step(op, u, priority, id, TRUE,
                  tr \o <<<<"scheduleTask", priority>>>> \o LifeCycleEvent(middleware[u], "onUpdate"),
                  "none")
  /\ ScheduleTask(u, id, priority, stk, live)

\* scheduleUpdate leaving the onUpdate hooks to the notification.
ScheduleUpdateNoHooks(u, id, priority, stk, tr, op, live) ==
  /\ last' = Step(op, u, priority, id, TRUE, tr \o <<<<"scheduleTask", priority>>>>, "none")
  /\ ScheduleTask(u, id, priority, stk, live)

\* State.scheduleUpdate(priority): the onUpdate hooks, then the hand-over of
\* the notification task to the scheduler.
ScheduleUpdate(u, id, priority, stk, tr, op, live) ==
  /\ last' = Step(op, u, priority, id, TRUE,
                  tr \o LifeCycleEvent(middleware[u], "onUpdate") \o <<<<"scheduleTask", priority>>>>,
                  "none")
  /\ ScheduleTask(u, id, priority, stk, live)

\* State.mutation scheduling the update in a finally clause: the hooks and the
\* hand-over run although func threw.
MutationThrowsFinally(u, priority, id, before) ==
  /\ last' = Step("mutation", u, priority, id, FALSE,
                  before \o LifeCycleEvent(middleware[u], "onUpdate")
                         \o <<<<"scheduleTask", priority>>>>,
                  "user")
  /\ state' = state
  /\ ScheduleTask(u, id, priority, stack, state[u])

\* State.mutation when func throws: nothing after func(...args) runs, and the
\* wrapper has no handler, so the exception reaches the caller.
MutationThrows(u, priority, id, before) ==
  /\ last' = Step("mutation", u, priority, id, FALSE, before, "user")
  /\ UNCHANGED <<state, schedulerVars, stack, micro, dirty>>

\* An in-place write of v to the current state of unit u, as initialState
\* sees it: the write shows in initialState when both are the same object.
WriteInPlace(u, v) ==
  IF initialState[u].ref = state[u].ref THEN [initialState EXCEPT ![u].val = v]
  ELSE initialState

\* The function State.mutation returns, for update, backgroundUpdate and
\* priorityUpdate with a synchronous func that writes the state in place
\* (outcome "ok"), writes in place the structure nested inside it (outcome
\* "nested"), or throws before writing (outcome "throw").
Mutation(u, priority, outcome) ==
  /\ u \in Units
  /\ Running
  /\ nmut + Len(pending) < MaxMut
  /\ priority = IMMEDIATE => Len(stack) < MaxDepth
  /\ outcome = "throw" => TopLevel
  /\ nmut' = nmut + 1
  /\ LET id == nmut + 1
         before == LifeCycleEvent(middleware[u], "onBeforeUpdate") \o <<<<"func", id>>>>
     IN IF outcome = "throw"
          THEN MutationThrows(u, priority, id, before)
          ELSE /\ state' = [state EXCEPT ![u].val = id]
               /\ ScheduleUpdate(u, id, priority, Touch(stack, u, state[u].ref, id),
                                 before, "mutation", state'[u])
  /\ nested' = IF outcome = "nested" THEN [nested EXCEPT ![u] = nmut + 1] ELSE nested
  /\ initialState' = IF outcome = "throw" THEN initialState ELSE WriteInPlace(u, nmut + 1)
  /\ UNCHANGED <<middleware, emitterVars, galenaVars, turn, pending>>

\* State.mutation calling scheduleUpdate without waiting for the promise func
\* returned.
MutationAsyncEager(u, priority) ==
  /\ u \in Units
  /\ Running
  /\ nmut + Len(pending) < MaxMut
  /\ Len(pending) < MaxPending
  /\ priority = IMMEDIATE => Len(stack) < MaxDepth
  /\ nmut' = nmut + 1
  /\ pending' = pending
  /\ state' = state
  /\ ScheduleUpdate(u, nmut + 1, priority, stack,
                    LifeCycleEvent(middleware[u], "onBeforeUpdate"), "mutationAsync", state[u])
  /\ UNCHANGED <<initialState, middleware, nested, emitterVars, galenaVars, turn>>

\* The function State.mutation returns, when func returns a pending promise:
\* the onBeforeUpdate hooks and func have run, scheduleUpdate waits in then().
\* The caller holds returnValue.then(...), a promise that is pending as long as
\* the mutation is in `pending` and settles in the step that removes it.
MutationAsync(u, priority) ==
  /\ u \in Units
  /\ Running
  /\ nmut + Len(pending) < MaxMut
  /\ Len(pending) < MaxPending
  /\ LET before == LifeCycleEvent(middleware[u], "onBeforeUpdate")
     IN /\ pending' = Append(pending, [unit |-> u, priority |-> priority, trace |-> before])
        /\ last' = Step("mutationAsync", u, priority, 0, TRUE, before, "none")
  /\ UNCHANGED <<unitVars, emitterVars, schedulerVars, galenaVars, stack, micro, turn,
                 nmut, dirty>>

\* then() given the same callback for rejection: scheduleUpdate runs whether
\* the promise resolved or rejected, and the rejection is consumed.
SettleAlways(k, outcome) ==
  /\ k \in DOMAIN pending
  /\ turn = "idle" /\ stack = <<>> /\ micro = <<>>
  /\ pending' = [i \in 1..(Len(pending) - 1) |-> IF i < k THEN pending[i] ELSE pending[i + 1]]
  /\ UNCHANGED <<initialState, middleware, nested, emitterVars, galenaVars, turn>>
  /\ LET p == pending[k]
         id == nmut + 1
     IN /\ nmut' = id
        /\ state' = IF outcome = "reject" THEN state ELSE [state EXCEPT ![p.unit].val = id]
        /\ last' = Step("settle", p.unit, p.priority, IF outcome = "reject" THEN 0 ELSE id,
                        outcome # "reject",
                        p.trace \o <<<<"func", id>>>> \o LifeCycleEvent(middleware[p.unit], "onUpdate")
                                \o <<<<"scheduleTask", p.priority>>>>,
                        "none")
        /\ ScheduleTask(p.unit, id, p.priority, stack, state'[p.unit])

\* The promise of pending mutation k settles in a task of its own.  Resolved:
\* func has written the state, and then() runs scheduleUpdate(priority).
\* Rejected: then() has no rejection handler, nothing runs, and the promise the
\* wrapper returned rejects.
Settle(k, outcome) ==
  /\ k \in DOMAIN pending
  /\ turn = "idle" /\ stack = <<>> /\ micro = <<>>
  /\ pending' = [i \in 1..(Len(pending) - 1) |-> IF i < k THEN pending[i] ELSE pending[i + 1]]
  /\ initialState' = IF outcome = "reject" THEN initialState
                     ELSE WriteInPlace(pending[k].unit, nmut + 1)
  /\ UNCHANGED <<middleware, nested, emitterVars, galenaVars, turn>>
  /\ LET p == pending[k]
         id == nmut + 1
     IN IF outcome = "reject"
          THEN /\ last' = Step("settle", p.unit, p.priority, 0, FALSE, p.trace, "rejected")
               /\ UNCHANGED <<state, schedulerVars, stack, micro, nmut, dirty>>
          ELSE /\ nmut' = id
               /\ state' = [state EXCEPT ![p.unit].val = id]
               /\ ScheduleUpdate(p.unit, id, p.priority, stack,
                                 p.trace \o <<<<"func", id>>>>, "settle", state'[p.unit])

\* State.reset: this.state = State.clone(this.initialState), a batched mutation.
Reset(u) ==
  /\ u \in Units
  /\ Running
  /\ nmut + Len(pending) < MaxMut
  /\ nmut' = nmut + 1
  /\ LET id == nmut + 1
         before == LifeCycleEvent(middleware[u], "onBeforeUpdate") \o <<<<"func", id>>>>
     IN /\ state' = [state EXCEPT ![u] = Clone(initialState[u], id + 1)]
        /\ ScheduleUpdate(u, id, BATCHED, stack, before, "reset", state'[u])
  /\ UNCHANGED <<initialState, middleware, nested, emitterVars, galenaVars, turn, pending>>

\* The middleware instances: those of the container, and the ones handed to
\* registerMiddleware, each a new instance numbered in the order of the calls.
MiddlewareIDs == 1..(MaxMiddleware * MaxUnits)
Registered == Range(ContainerMiddleware) \cup UNION {Range(middleware[v]) : v \in Names}

\* registerMiddleware pushing onto an array that all units share.
RegisterMiddlewareShared(u, m) ==
  /\ u \in Units
  /\ TopLevel
  /\ Len(middleware[u]) < MaxMiddleware
  /\ m = Cardinality(Registered) + 1
  /\ middleware' = [v \in Names |-> IF v \in Units THEN Append(middleware[v], m)
                                    ELSE middleware[v]]
  /\ last' = Step("registerMiddleware", u, 0, m, TRUE, <<>>, "none")
  /\ UNCHANGED <<state, initialState, nested, emitterVars, schedulerVars, galenaVars,
                 stack, micro, turn, pending, nmut, dirty>>

\* State.registerMiddleware(m): this.middleware.push(m)
RegisterMiddleware(u, m) ==
  /\ u \in Units
  /\ TopLevel
  /\ Len(middleware[u]) < MaxMiddleware
  /\ m = Cardinality(Registered) + 1
  /\ middleware' = [middleware EXCEPT ![u] = Append(@, m)]
  /\ last' = Step("registerMiddleware", u, 0, m, TRUE, <<>>, "none")
  /\ UNCHANGED <<state, initialState, nested, emitterVars, schedulerVars, galenaVars,
                 stack, micro, turn, pending, nmut, dirty>>

\* State.subscribe(callback), called by top-level code.
Subscribe(u) ==
  /\ u \in Units
  /\ TopLevel
  /\ Cardinality({i \in issued : i[1] = u}) < MaxIDs
  /\ subs' = [subs EXCEPT ![u] = On(@, nextID[u], 0)]
  /\ nextID' = [nextID EXCEPT ![u] = @ + 1]
  /\ issued' = issued \cup {<<u, nextID[u] + 1>>}
  /\ last' = Step("subscribe", u, 0, nextID[u] + 1, TRUE, <<>>, "none")
  /\ UNCHANGED <<unitVars, schedulerVars, galenaVars, stack, micro, turn, pending, nmut, dirty>>

\* unsubscribe taking effect only when no notification of the unit is awaited.
UnsubscribeDeferred(u, id) ==
  /\ <<u, id>> \in issued
  /\ Running
  /\ \E s \in subs[u] : s.id = id
  /\ subs' = [subs EXCEPT ![u] = IF dirty[u] THEN @ ELSE {s \in @ : s.id # id}]
  /\ last' = Step("unsubscribe", u, 0, id, TRUE, <<>>, "none")
  /\ UNCHANGED <<unitVars, nextID, issued, schedulerVars, galenaVars, stack, micro,
                 turn, pending, nmut, dirty>>

\* State.unsubscribe(ID) with an ID that subscribe returned, or, from top-level
\* code, with an ID that names no subscription of the unit (never issued, or
\* removed before); `ok` is what emitter.off returns, whether something was
\* removed.
Unsubscribe(u, id) ==
  /\ u \in Units
  /\ \/ <<u, id>> \in issued /\ Running /\ id \in {x.id : x \in subs[u]}
     \/ TopLevel /\ id \notin {x.id : x \in subs[u]}
  /\ subs' = [subs EXCEPT ![u] = Off(@, id)]
  /\ last' = Step("unsubscribe", u, 0, id, id \in {x.id : x \in subs[u]}, <<>>, "none")
  /\ UNCHANGED <<unitVars, nextID, issued, schedulerVars, galenaVars, stack, micro,
                 turn, pending, nmut, dirty>>

\* ---------------------------------------------------------- the event loop
\* A script macrotask starts (an event handler, the main program).
BeginTurn ==
  /\ turn = "idle" /\ stack = <<>> /\ micro = <<>>
  /\ turn' = "script"
  /\ last' = Step("beginTurn", 0, 0, 0, TRUE, <<>>, "none")
  /\ UNCHANGED <<unitVars, emitterVars, schedulerVars, galenaVars, stack, micro, pending, nmut, dirty>>

\* The script macrotask returns.
EndTurn ==
  /\ TopLevel
  /\ turn' = "idle"
  /\ last' = Step("endTurn", 0, 0, 0, TRUE, <<>>, "none")
  /\ UNCHANGED <<unitVars, emitterVars, schedulerVars, galenaVars, stack, micro, pending, nmut, dirty>>

\* The microtask of scheduleTask's MICROTASK branch:
\* Promise.resolve().then(() => { this.task = task; return this.executeTasks(); })
RunMicrotask ==
  /\ turn = "idle" /\ stack = <<>> /\ micro # <<>>
  /\ UNCHANGED <<unitVars, emitterVars, galenaVars, turn, pending, nmut>>
  /\ LET m == Head(micro)
     IN /\ ExecuteTasks(m.unit, m.mut, MICROTASK, stack, timers[m.unit], state[m.unit])
        /\ last' = Step("microtask", m.unit, MICROTASK, m.mut, TRUE, <<>>, "none")
  /\ micro' = Tail(micro)

\* The timer of createSchedule fires: setTimeout(() => { this.executeTasks(); }, 5)
TimerFire(u, h) ==
  /\ turn = "idle" /\ stack = <<>> /\ micro = <<>>
  /\ h \in timers[u]
  /\ UNCHANGED <<unitVars, emitterVars, galenaVars, micro, turn, pending, nmut>>
  /\ ExecuteTasks(u, task[u], BATCHED, stack, timers[u] \ {h}, state[u])
  /\ last' = Step("timer", u, BATCHED, task[u], task[u] # 0, <<>>, "none")

\* subscribeAll subscribing the callback itself: it is called with the unit's
\* state.
ListenerArgUnit(l, ref) == [kind |-> "unit", ref |-> ref]

\* What a listener is called with.  A callback of State.subscribe (listener 0)
\* gets the emit's argument, the unit's state object.  The listener that
\* subscribeAll makes, () => callback(this.state), passes Galena.state, the one
\* record of the container's units that composeState extends in place.
ListenerArg(l, ref) ==
  IF l = 0 THEN [kind |-> "unit", ref |-> ref] ELSE [kind |-> "container", ref |-> 0]

\* The flush calls its next subscriber with the state object it was given.
Deliver ==
  /\ stack # <<>>
  /\ ToCall(subs[Top.unit], Top.cursor) # {}
  /\ LET n == Min(ToCall(subs[Top.unit], Top.cursor))
         l == (CHOOSE s \in subs[Top.unit] : s.id = n).listener
     IN /\ stack' = [stack EXCEPT ![Len(stack)].cursor = n,
                                  ![Len(stack)].called = Append(@, <<n, l, ListenerArg(l, Top.arg)>>)]
        /\ last' = Step("notify", Top.unit, Top.lane, n, TRUE, <<>>, "none")
  /\ UNCHANGED <<unitVars, emitterVars, schedulerVars, galenaVars, micro, turn, pending, nmut, dirty>>

\* The emit returns to executeTasks: this.task = null
EmitDone ==
  /\ stack # <<>>
  /\ ToCall(subs[Top.unit], Top.cursor) = {}
  /\ task' = [task EXCEPT ![Top.unit] = 0]
  /\ stack' = SubSeq(stack, 1, Len(stack) - 1)
  /\ last' = Step("emitDone", Top.unit, Top.lane, Top.mut, TRUE, Top.called, "none")
  /\ UNCHANGED <<unitVars, emitterVars, schedule, timers, galenaVars, micro, turn, pending, nmut, dirty>>

\* The subscriber that the flush is calling raises: emit and the task end with
\* the exception, executeTasks ends before this.task = null, and the exception
\* reaches whatever invoked executeTasks (the caller of the mutation on the
\* immediate lane, the host on the others).
SubscriberThrows ==
  /\ stack # <<>>
  /\ Top.cursor > 0
  /\ stack' = SubSeq(stack, 1, Len(stack) - 1)
  /\ last' = Step("throw", Top.unit, Top.lane, Top.mut, FALSE, Top.called, "subscriber")
  /\ UNCHANGED <<unitVars, emitterVars, schedulerVars, galenaVars, micro, turn, pending, nmut, dirty>>

\* ------------------------------------------------------------------ Galena
\* An entry of Galena.subscriptions; `n` remembers how many units existed when
\* subscribeAll made it.
NoSubscription == [tracked |-> FALSE, list |-> <<>>, n |-> 0]

\* Galena.subscribeAll, the loop over this.state: one per-unit subscription
\* of a listener of container subscription g on each existing unit.
RECURSIVE SubscribeEach(_, _, _)
SubscribeEach(i, g, acc) ==
  IF i > Len(order) THEN acc
  ELSE LET key == order[i]
       IN SubscribeEach(i + 1, g,
            [subs |-> [acc.subs EXCEPT ![key] = On(@, acc.nextID[key], g)],
             nextID |-> [acc.nextID EXCEPT ![key] = @ + 1],
             list |-> Append(acc.list, <<key, acc.nextID[key] + 1>>)])

\* Galena.subscribeAll(callback)
SubscribeAll ==
  /\ TopLevel
  /\ nextGlobal < MaxGlobal
  /\ LET r == SubscribeEach(1, nextGlobal + 1, [subs |-> subs, nextID |-> nextID, list |-> <<>>])
     IN /\ subs' = r.subs
        /\ nextID' = r.nextID
        /\ subscriptions' = [subscriptions EXCEPT ![nextGlobal + 1] =
                               [tracked |-> TRUE, list |-> r.list, n |-> Len(order)]]
  /\ nextGlobal' = nextGlobal + 1
  /\ last' = Step("subscribeAll", 0, 0, nextGlobal + 1, TRUE, <<>>, "none")
  /\ UNCHANGED <<unitVars, issued, schedulerVars, order, instances, stack, micro, turn, pending,
                 nmut, dirty>>

\* unsubscribeAll removing only the first tracked pair.
UnsubscribeEachFirstOnly(list, S) ==
  IF list = <<>> THEN S
  ELSE [S EXCEPT ![list[1][1]] = {x \in @ : x.id # list[1][2]}]

\* Galena.unsubscribeAll, the loop over the tracked pairs.
RECURSIVE UnsubscribeEach(_, _)
UnsubscribeEach(list, S) ==
  IF list = <<>> THEN S
  ELSE UnsubscribeEach(Tail(list), [S EXCEPT ![Head(list)[1]] = Off(@, Head(list)[2])])

\* unsubscribeAll without the `if (IDs)` test: iterating undefined raises.
UnsubscribeAllUnguarded(g) ==
  /\ TopLevel
  /\ g \in 1..MaxGlobal
  /\ subs' = UnsubscribeEach(subscriptions[g].list, subs)
  /\ subscriptions' = [subscriptions EXCEPT ![g] = NoSubscription]
  /\ last' = Step("unsubscribeAll", 0, 0, g, subscriptions[g].tracked, <<>>,
                  IF subscriptions[g].tracked THEN "none" ELSE "TypeError")
  /\ UNCHANGED <<unitVars, nextID, issued, schedulerVars, order, instances, nextGlobal, stack,
                 micro, turn, pending, nmut, dirty>>

\* Galena.unsubscribeAll(ID): const IDs = this.subscriptions.get(ID); if (IDs)
\* each tracked pair is unsubscribed and the entry deleted; an ID that is not
\* tracked (never returned, or removed before) does nothing.  `ok`: IDs was found.
UnsubscribeAll(g) ==
  /\ TopLevel
  /\ g \in 1..MaxGlobal
  /\ IF subscriptions[g].tracked
       THEN /\ subs' = UnsubscribeEach(subscriptions[g].list, subs)
            /\ subscriptions' = [subscriptions EXCEPT ![g] = NoSubscription]
       ELSE UNCHANGED <<subs, subscriptions>>
  /\ last' = Step("unsubscribeAll", 0, 0, g, subscriptions[g].tracked, <<>>, "none")
  /\ UNCHANGED <<unitVars, nextID, issued, schedulerVars, order, instances, nextGlobal, stack,
                 micro, turn, pending, nmut, dirty>>

\* Galena.reIndexSubscriptions(name): the Map is walked in insertion order.
\* Destructuring unitSubscriptions[0] of an empty list raises a TypeError,
\* which ends the walk with what was done so far.
RECURSIVE ReIndexSubscriptions(_, _, _)
ReIndexSubscriptions(g, name, acc) ==
  IF g > MaxGlobal \/ acc.threw THEN acc
  ELSE IF ~acc.subscriptions[g].tracked THEN ReIndexSubscriptions(g + 1, name, acc)
  ELSE LET unitSubscriptions == acc.subscriptions[g].list
       IN IF unitSubscriptions = <<>> THEN [acc EXCEPT !.threw = TRUE]
          ELSE LET stateName == unitSubscriptions[1][1]
                   listenerID == unitSubscriptions[1][2]
                   found == {s \in acc.subs[stateName] : s.id = listenerID}
               IN IF found = {} THEN ReIndexSubscriptions(g + 1, name, acc)
                  ELSE LET listener == (CHOOSE s \in found : TRUE).listener
                       IN ReIndexSubscriptions(g + 1, name,
                            [subs |-> [acc.subs EXCEPT ![name] = On(@, acc.nextID[name], listener)],
                             nextID |-> [acc.nextID EXCEPT ![name] = @ + 1],
                             subscriptions |->
                               [acc.subscriptions EXCEPT ![g].list =
                                  Append(@, <<name, acc.nextID[name] + 1>>)],
                             threw |-> FALSE])

\* Galena.composeState(name, initialState) with a name not yet in the container.
ComposeState(name) ==
  /\ TopLevel
  /\ name \in Names \ Units
  /\ state' = [state EXCEPT ![name] = [ref |-> 0, val |-> 0]]
  /\ initialState' = [initialState EXCEPT ![name] = Clone([ref |-> 0, val |-> 0], 1)]
  /\ middleware' = [middleware EXCEPT ![name] = ContainerMiddleware]
  /\ UNCHANGED nested
  /\ order' = Append(order, name)
  /\ LET r == ReIndexSubscriptions(1, name,
                [subs |-> subs, nextID |-> nextID, subscriptions |-> subscriptions,
                 threw |-> FALSE])
     IN /\ instances' = [instances EXCEPT ![name] =
                           [stored |-> 1, returned |-> IF r.threw THEN {} ELSE {1}]]
        /\ subs' = r.subs
        /\ nextID' = r.nextID
        /\ subscriptions' = r.subscriptions
        /\ last' = Step("composeState", name, 0, 0, ~r.threw, <<>>,
                        IF r.threw THEN "TypeError" ELSE "none")
  /\ UNCHANGED <<issued, schedulerVars, nextGlobal, stack, micro, turn, pending, nmut, dirty>>

\* State.unsubscribe(ID) called by top-level code on a unit of the container
\* with the ID of any live subscription of the unit, one that subscribeAll or
\* composeState made included.
UnsubscribeDirect(u, id) ==
  /\ TopLevel
  /\ u \in Units
  /\ id \in {x.id : x \in subs[u]}
  /\ subs' = [subs EXCEPT ![u] = Off(@, id)]
  /\ last' = Step("unsubscribe", u, 0, id, TRUE, <<>>, "none")
  /\ UNCHANGED <<unitVars, nextID, issued, schedulerVars, galenaVars, stack, micro,
                 turn, pending, nmut, dirty>>

\* ------------------------------------------------------------------ Guards
\* The builds of the guards: the development build of the throwing revision
\* (NODE_ENV = "development"), its other builds, where developmentGuard skips
\* the guard, and the revision whose guard only warns.
Builds == {"development", "production", "warning"}

\* Guards.guardDuplicateStates(name, this.state): TRUE when it throws.
GuardDuplicateStates(name, build) == name \in Units /\ build = "development"

\* Guards.warnForUndefinedStates(name, this.state): TRUE when it warns.
WarnForUndefinedStates(name, build) == name \notin Units /\ build # "production"

\* get creating the unit it does not find.
GetOrCompose(name, build) ==
  /\ TopLevel
  /\ IF name \in Units
       THEN UNCHANGED <<unitVars, galenaVars>>
       ELSE /\ order' = Append(order, name)
            /\ middleware' = [middleware EXCEPT ![name] = ContainerMiddleware]
            /\ UNCHANGED <<state, initialState, nested, instances, subscriptions, nextGlobal>>
  /\ last' = Step("get", name, 0, 0, TRUE, <<>>, "none")
  /\ UNCHANGED <<emitterVars, schedulerVars, stack, micro, turn, pending, nmut, dirty>>

\* Galena.get(name): the guard may warn, then this.state[name] is returned,
\* which is undefined (ok FALSE) for a name that was not composed.
Get(name, build) ==
  /\ TopLevel
  /\ last' = Step("get", name, 0, instances[name].stored, name \in Units,
                  IF WarnForUndefinedStates(name, build)
                    THEN <<<<"warnForUndefinedStates", name>>>> ELSE <<>>,
                  "none")
  /\ UNCHANGED <<unitVars, emitterVars, schedulerVars, galenaVars, stack, micro, turn,
                 pending, nmut, dirty>>

\* Galena.composeState(name, initialState) with a name the container already
\* holds, while nothing of the unit stored under it is in flight.  When the
\* guard does not throw, a new State (own emitter, own scheduler) takes the
\* place of the old one under the same key, and reIndexSubscriptions runs.
ComposeStateDuplicate(name, build) ==
  /\ TopLevel
  /\ name \in Units
  /\ timers[name] = {}
  /\ \A i \in DOMAIN micro : micro[i].unit # name
  /\ \A g \in 1..MaxGlobal : Len(subscriptions[g].list) <= Len(order)  \* bounds the lists
  /\ instances[name].stored < MaxInstances
  /\ IF GuardDuplicateStates(name, build)
       THEN /\ last' = Step("composeState", name, 0, 0, FALSE,
                            <<<<"guardDuplicateStates", build>>>>, "Error")
            /\ UNCHANGED <<unitVars, emitterVars, schedulerVars, galenaVars, dirty>>
       ELSE /\ state' = [state EXCEPT ![name] = [ref |-> 0, val |-> 0]]
            /\ initialState' = [initialState EXCEPT ![name] = Clone([ref |-> 0, val |-> 0], 1)]
            /\ middleware' = [middleware EXCEPT ![name] = ContainerMiddleware]
            /\ nested' = [nested EXCEPT ![name] = 0]
            /\ task' = [task EXCEPT ![name] = 0]
            /\ schedule' = [schedule EXCEPT ![name] = 0]
            /\ dirty' = [dirty EXCEPT ![name] = FALSE]
            /\ issued' = {i \in issued : i[1] # name}
            /\ LET r == ReIndexSubscriptions(1, name,
                          [subs |-> [subs EXCEPT ![name] = {}],
                           nextID |-> [nextID EXCEPT ![name] = 0],
                           subscriptions |-> subscriptions,
                           threw |-> FALSE])
               IN /\ instances' = [instances EXCEPT ![name] =
                                     [stored |-> @.stored + 1,
                                      returned |-> IF r.threw THEN @.returned
                                                   ELSE @.returned \cup {@.stored + 1}]]
                  /\ subs' = r.subs
                  /\ nextID' = r.nextID
                  /\ subscriptions' = r.subscriptions
                  /\ last' = Step("composeState", name, 0, 0, ~r.threw,
                                  <<<<"guardDuplicateStates", build>>>>,
                                  IF r.threw THEN "TypeError" ELSE "none")
            /\ UNCHANGED <<order, nextGlobal, timers>>
  /\ UNCHANGED <<stack, micro, turn, pending, nmut>>

\* ------------------------------------------ the earlier revision: Empire
\* In the earlier revision the container is the Empire, a unit registers
\* itself with it when constructed, every update notifies synchronously, and
\* all units publish through one static Emitter, a topic per unit name.
\* `order` is Empire._state, `subscriptions` Empire.subscriptions, `nextGlobal`
\* Empire.subscriptionID, `subs` the Emitter's topics, and instances[name] the
\* State object Empire._state holds and the handles the program holds.  The
\* IDs of the model are never reused, so an ID names one registration.

\* The listeners the Emitter holds, as <<topic, ID>>.
Listeners(S) == UNION {{<<u, s.id>> : s \in S[u]} : u \in Names}

\* Emitter.destroy(): every topic loses its listeners.
EmitterDestroy(S) == [u \in Names |-> {}]

\* AutoIncrementingID.destroy(): the counter starts again.
AutoIncrementingIDDestroy(n) == 0

\* new State(empire, name, state): the constructor ends with
\* Empire.add(name, this), this._state.set(key, state).  A name is constructed once.
NewState(name) ==
  /\ TopLevel
  /\ name \in Names \ Units
  /\ instances[name].returned = {}
  /\ order' = Append(order, name)
  /\ instances' = [instances EXCEPT ![name] = [stored |-> 1, returned |-> {1}]]
  /\ state' = [state EXCEPT ![name] = [ref |-> 0, val |-> 0]]
  /\ last' = Step("newState", name, 0, 1, TRUE, <<>>, "none")
  /\ UNCHANGED <<initialState, middleware, nested, emitterVars, schedulerVars, subscriptions,
                 nextGlobal, stack, micro, turn, pending, nmut, dirty>>

\* State.subscribe(func) of the earlier revision, through a handle the program
\* holds: Emitter.subscribe(this.name, func)
StateSubscribe(name) ==
  /\ TopLevel
  /\ instances[name].returned # {}
  /\ nextID[name] < MaxIDs + MaxContainerSubs
  /\ subs' = [subs EXCEPT ![name] = On(@, nextID[name], 0)]
  /\ nextID' = [nextID EXCEPT ![name] = @ + 1]
  /\ issued' = issued \cup {<<name, nextID[name] + 1>>}
  /\ last' = Step("subscribe", name, 0, nextID[name] + 1, TRUE, <<>>, "none")
  /\ UNCHANGED <<unitVars, schedulerVars, galenaVars, stack, micro, turn, pending, nmut, dirty>>

\* State.update(func) of the earlier revision, through a handle the program
\* holds: func(this._state); Emitter.emit(this.name, this._state)
StateUpdate(name) ==
  /\ TopLevel
  /\ instances[name].returned # {}
  /\ nmut < MaxContainerMut
  /\ nmut' = nmut + 1
  /\ state' = [state EXCEPT ![name].val = nmut + 1]
  /\ stack' = Append(stack, Frame(name, IMMEDIATE, nmut + 1, state'[name]))
  /\ last' = Step("update", name, IMMEDIATE, nmut + 1, TRUE, <<>>, "none")
  /\ UNCHANGED <<initialState, middleware, nested, emitterVars, schedulerVars, galenaVars,
                 micro, turn, pending, dirty>>

\* Empire.subscribe, the loop over this._state: State.subscribe(() => func(this._state))
\* on each unit the Empire holds.
RECURSIVE EmpireSubscribeEach(_, _, _)
EmpireSubscribeEach(i, g, acc) ==
  IF i > Len(order) THEN acc
  ELSE LET name == order[i]
       IN EmpireSubscribeEach(i + 1, g,
            [subs |-> [acc.subs EXCEPT ![name] = On(@, acc.nextID[name], g)],
             nextID |-> [acc.nextID EXCEPT ![name] = @ + 1],
             list |-> Append(acc.list, <<name, acc.nextID[name] + 1>>)])

\* Empire.subscribe(func)
EmpireSubscribe ==
  /\ TopLevel
  /\ nextGlobal < MaxGlobal
  /\ \A u \in Units : nextID[u] < MaxIDs + MaxContainerSubs
  /\ LET ID == nextGlobal + 1
         r == EmpireSubscribeEach(1, ID, [subs |-> subs, nextID |-> nextID, list |-> <<>>])
     IN /\ subs' = r.subs
        /\ nextID' = r.nextID
        /\ subscriptions' = [subscriptions EXCEPT ![ID] =
                               [tracked |-> TRUE, list |-> r.list, n |-> Len(order)]]
        /\ nextGlobal' = ID
        /\ last' = Step("subscribeAll", 0, 0, ID, TRUE, <<>>, "none")
  /\ UNCHANGED <<unitVars, issued, schedulerVars, order, instances, stack, micro, turn, pending,
                 nmut, dirty>>

\* Empire.unsubscribe(ID): const IDs = this.subscriptions.get(ID) || []; each
\* pair is unsubscribed from its unit; the entry stays in the map.
EmpireUnsubscribe(g) ==
  /\ TopLevel
  /\ g \in 1..MaxGlobal
  /\ subs' = UnsubscribeEach(subscriptions[g].list, subs)
  /\ last' = Step("unsubscribeAll", 0, 0, g, subscriptions[g].tracked, <<>>, "none")
  /\ UNCHANGED <<unitVars, nextID, issued, schedulerVars, galenaVars, stack, micro, turn,
                 pending, nmut, dirty>>

\* destroy without its Emitter.destroy() call.
EmpireDestroyKeepsEmitter ==
  /\ TopLevel
  /\ order' = <<>>
  /\ instances' = [u \in Names |-> [instances[u] EXCEPT !.stored = 0]]
  /\ nextGlobal' = AutoIncrementingIDDestroy(nextGlobal)
  /\ subscriptions' = [g \in 1..MaxGlobal |-> NoSubscription]
  /\ subs' = subs
  /\ last' = StepOf("destroy", 0, 0, 0, TRUE, <<>>, "none",
                    last.destroyed \cup Listeners(subs), last.count)
  /\ UNCHANGED <<unitVars, nextID, issued, schedulerVars, stack, micro, turn, pending, nmut,
                 dirty>>

\* Empire.destroy(): this._state = new Map(); stateUpdateID.destroy();
\* subscriptionID.destroy(); this.subscriptions = new Map(); Emitter.destroy().
\* The handles the program holds stay with it.
EmpireDestroy ==
  /\ TopLevel
  /\ order' = <<>>
  /\ instances' = [u \in Names |-> [instances[u] EXCEPT !.stored = 0]]
  /\ nextGlobal' = AutoIncrementingIDDestroy(nextGlobal)
  /\ subscriptions' = [g \in 1..MaxGlobal |-> NoSubscription]
  /\ subs' = EmitterDestroy(subs)
  /\ last' = StepOf("destroy", 0, 0, 0, TRUE, <<>>, "none",
                    last.destroyed \cup Listeners(subs), last.count)
  /\ UNCHANGED <<unitVars, nextID, issued, schedulerVars, stack, micro, turn, pending, nmut,
                 dirty>>

\* ------------------------------------------------ the compiled build (dist)
\* Reactivity.onBeforeUpdate / onUpdate of the compiled build:
\* this.middleware.forEach((middleware) => middleware[event](state))
DistLifeCycleEvent(mw, event) ==
  [i \in 1..Len(mw) |-> <<event, mw[i]>>]

\* emitUpdate of the compiled build: void Promise.resolve(() => { emit(...) }).
\* The promise is resolved WITH the function: no callback is attached to it,
\* so no microtask is queued and the function is never called.
EmitUpdate(q, u, id) == q

\* The function mutation(func) returns in the compiled build, for update, reset
\* and a wrapped method with a synchronous func: onBeforeUpdate, func,
\* emitUpdate, onUpdate.
DistMutation(u, method) ==
  /\ u \in Units
  /\ TopLevel
  /\ nmut + Len(pending) < MaxMut
  /\ nmut' = nmut + 1
  /\ LET id == nmut + 1
     IN /\ state' = IF method = "reset" THEN [state EXCEPT ![u] = Clone(initialState[u], id + 1)]
                    ELSE [state EXCEPT ![u].val = id]
        /\ initialState' = IF method = "reset" THEN initialState ELSE WriteInPlace(u, id)
        /\ micro' = EmitUpdate(micro, u, id)
        /\ last' = Step(method, u, 0, id, TRUE,
                        DistLifeCycleEvent(middleware[u], "onBeforeUpdate")
                          \o <<<<"func", id>>, <<"emitUpdate", id>>>>
                          \o DistLifeCycleEvent(middleware[u], "onUpdate"),
                        "none")
  /\ dirty' = [dirty EXCEPT ![u] = TRUE]
  /\ UNCHANGED <<middleware, nested, emitterVars, schedulerVars, galenaVars, stack, turn, pending>>

\* The same function when func returns a promise: onBeforeUpdate and func have
\* run, the rest waits in returnValue.then(...).
DistMutationAsync(u) ==
  /\ u \in Units
  /\ TopLevel
  /\ nmut + Len(pending) < MaxMut
  /\ Len(pending) < MaxPending
  /\ LET before == DistLifeCycleEvent(middleware[u], "onBeforeUpdate")
     IN /\ pending' = Append(pending, [unit |-> u, priority |-> 0, trace |-> before])
        /\ last' = Step("mutationAsync", u, 0, 0, TRUE, before, "none")
  /\ UNCHANGED <<unitVars, emitterVars, schedulerVars, galenaVars, stack, micro, turn,
                 nmut, dirty>>

\* The promise of the pending mutation resolves: func has written the state,
\* then() runs emitUpdate and onUpdate.
DistSettle(k) ==
  /\ k \in DOMAIN pending
  /\ turn = "idle" /\ stack = <<>> /\ micro = <<>>
  /\ pending' = [i \in 1..(Len(pending) - 1) |-> IF i < k THEN pending[i] ELSE pending[i + 1]]
  /\ nmut' = nmut + 1
  /\ LET p == pending[k]
         id == nmut + 1
     IN /\ state' = [state EXCEPT ![p.unit].val = id]
        /\ initialState' = WriteInPlace(p.unit, id)
        /\ micro' = EmitUpdate(micro, p.unit, id)
        /\ dirty' = [dirty EXCEPT ![p.unit] = TRUE]
        /\ last' = Step("settle", p.unit, 0, id, TRUE,
                        p.trace \o <<<<"func", id>>, <<"emitUpdate", id>>>>
                                \o DistLifeCycleEvent(middleware[p.unit], "onUpdate"),
                        "none")
  /\ UNCHANGED <<middleware, nested, emitterVars, schedulerVars, galenaVars, stack, turn>>

\* ------------------------------------------------------------ specification
Init ==
  /\ order = <<>>
  /\ instances = [u \in Names |-> [stored |-> 0, returned |-> {}]]
  /\ state = [u \in Names |-> [ref |-> 0, val |-> 0]]
  /\ initialState = [u \in Names |-> [ref |-> 0, val |-> 0]]
  /\ middleware = [u \in Names |-> <<>>]
  /\ nested = [u \in Names |-> 0]
  /\ subs = [u \in Names |-> {}]
  /\ nextID = [u \in Names |-> 0]
  /\ task = [u \in Names |-> 0]
  /\ schedule = [u \in Names |-> 0]
  /\ timers = [u \in Names |-> {}]
  /\ subscriptions = [g \in 1..MaxGlobal |-> NoSubscription]
  /\ nextGlobal = 0
  /\ issued = {}
  /\ stack = <<>>
  /\ micro = <<>>
  /\ turn = "idle"
  /\ pending = <<>>
  /\ nmut = 0
  /\ dirty = [u \in Names |-> FALSE]
  /\ last = StepOf("init", 0, 0, 0, TRUE, <<>>, "none", {}, NoCount)

Next ==
  \/ BeginTurn
  \/ EndTurn
  \/ \E name \in Names : ComposeState(name)
  \/ \E name \in Names, build \in Builds : Get(name, build)
  \/ SubscribeAll
  \/ \E g \in 1..MaxGlobal : UnsubscribeAll(g)
  \/ \E u \in Names : Cardinality(issued) < MaxContainerSubs /\ Subscribe(u)
  \/ \E u \in Names, id \in 1..(MaxIDs + MaxGlobal) : Unsubscribe(u, id)
  \/ \E u \in Names, p \in Priorities :
       TopLevel /\ nmut < MaxContainerMut /\ Mutation(u, p, "ok")
  \/ RunMicrotask
  \/ \E u \in Names, h \in 1..MaxMut : TimerFire(u, h)
  \/ Deliver
  \/ EmitDone

Spec == Init /\ [][Next]_vars

\* The container used with names that may repeat.
NextDuplicate ==
  \/ BeginTurn
  \/ EndTurn
  \/ \E name \in Names : ComposeState(name)
  \/ \E name \in Names, build \in Builds : ComposeStateDuplicate(name, build)
  \/ SubscribeAll
  \/ \E g \in 1..MaxGlobal : UnsubscribeAll(g)
  \/ \E u \in Names : Cardinality(issued) < MaxContainerSubs /\ Subscribe(u)
  \/ \E u \in Names, id \in 1..(MaxIDs + MaxGlobal) : Unsubscribe(u, id)
  \/ \E u \in Names, p \in Priorities :
       TopLevel /\ nmut < MaxDuplicateMut /\ Mutation(u, p, "ok")
  \/ RunMicrotask
  \/ \E u \in Names, h \in 1..MaxMut : TimerFire(u, h)
  \/ Deliver
  \/ EmitDone

SpecDuplicate == Init /\ [][NextDuplicate]_vars

\* One unit already composed by a container built with ContainerMiddleware:
\* the state after new Galena([M1, M2]).composeState(1, value).
InitUnit ==
  /\ order = <<1>>
  /\ instances = [u \in Names |-> IF u = 1 THEN [stored |-> 1, returned |-> {1}]
                                  ELSE [stored |-> 0, returned |-> {}]]
  /\ state = [u \in Names |-> [ref |-> 0, val |-> 0]]
  /\ initialState = [u \in Names |-> IF u = 1 THEN Clone([ref |-> 0, val |-> 0], 1)
                                     ELSE [ref |-> 0, val |-> 0]]
  /\ middleware = [u \in Names |-> IF u = 1 THEN ContainerMiddleware ELSE <<>>]
  /\ nested = [u \in Names |-> 0]
  /\ subs = [u \in Names |-> {}]
  /\ nextID = [u \in Names |-> 0]
  /\ task = [u \in Names |-> 0]
  /\ schedule = [u \in Names |-> 0]
  /\ timers = [u \in Names |-> {}]
  /\ subscriptions = [g \in 1..MaxGlobal |-> NoSubscription]
  /\ nextGlobal = 0
  /\ issued = {}
  /\ stack = <<>>
  /\ micro = <<>>
  /\ turn = "idle"
  /\ pending = <<>>
  /\ nmut = 0
  /\ dirty = [u \in Names |-> FALSE]
  /\ last = StepOf("init", 0, 0, 0, TRUE, <<>>, "none", {}, NoCount)

\* The operations of one unit and the event loop.
NextUnit ==
  \/ BeginTurn
  \/ EndTurn
  \/ \E u \in Names : Subscribe(u)
  \/ \E u \in Names, id \in 1..(MaxIDs + MaxGlobal) : Unsubscribe(u, id)
  \/ \E u \in Names, p \in Priorities, o \in {"ok", "throw"} : Mutation(u, p, o)
  \/ \E u \in Names, p \in Priorities : MutationAsync(u, p)
  \/ \E k \in 1..MaxPending, o \in {"ok", "reject"} : Settle(k, o)
  \/ \E u \in Names : Reset(u)
  \/ RunMicrotask
  \/ \E u \in Names, h \in 1..MaxMut : TimerFire(u, h)
  \/ Deliver
  \/ EmitDone

SpecUnit == InitUnit /\ [][NextUnit]_vars

\* The operations of one unit on its value and its middleware, called by
\* top-level code, and the event loop.
NextState ==
  \/ BeginTurn
  \/ EndTurn
  \/ \E u \in Names, m \in MiddlewareIDs : RegisterMiddleware(u, m)
  \/ \E u \in Names : Cardinality(issued) < MaxContainerSubs /\ Subscribe(u)
  \/ \E u \in Names, p \in Priorities, o \in {"ok", "nested", "throw"} :
       TopLevel /\ Mutation(u, p, o)
  \/ \E u \in Names, p \in Priorities : TopLevel /\ MutationAsync(u, p)
  \/ \E k \in 1..MaxPending, o \in {"ok", "reject"} : Settle(k, o)
  \/ \E u \in Names : TopLevel /\ Reset(u)
  \/ RunMicrotask
  \/ \E u \in Names, h \in 1..MaxMut : TimerFire(u, h)
  \/ Deliver
  \/ EmitDone

SpecState == InitUnit /\ [][NextState]_vars

\* The container composing units, the units' middleware and mutations made
\* by top-level code, and the event loop.
NextMiddleware ==
  \/ BeginTurn
  \/ EndTurn
  \/ \E name \in Names : ComposeState(name)
  \/ \E u \in Names, m \in MiddlewareIDs : RegisterMiddleware(u, m)
  \/ \E u \in Names : Cardinality(issued) < MaxContainerSubs /\ Subscribe(u)
  \/ \E u \in Names, p \in Priorities, o \in {"ok", "throw"} :
       TopLevel /\ nmut < MaxContainerMut /\ Mutation(u, p, o)
  \/ \E u \in Names : TopLevel /\ nmut < MaxContainerMut /\ Reset(u)
  \/ RunMicrotask
  \/ \E u \in Names, h \in 1..MaxMut : TimerFire(u, h)
  \/ Deliver
  \/ EmitDone

SpecMiddleware == Init /\ [][NextMiddleware]_vars

\* The earlier revision: units constructed on an Empire, subscriptions,
\* synchronous updates and destroy, called by top-level code.
NextEmpire ==
  \/ BeginTurn
  \/ EndTurn
  \/ \E name \in Names : NewState(name)
  \/ \E name \in Names : StateSubscribe(name)
  \/ \E name \in Names : StateUpdate(name)
  \/ EmpireSubscribe
  \/ \E g \in 1..MaxGlobal : EmpireUnsubscribe(g)
  \/ EmpireDestroy
  \/ Deliver
  \/ EmitDone

SpecEmpire == Init /\ [][NextEmpire]_vars

\* One unit whose subscribers may raise.
NextThrow ==
  \/ BeginTurn
  \/ EndTurn
  \/ \E u \in Names : Subscribe(u)
  \/ \E u \in Names, p \in Priorities : Mutation(u, p, "ok")
  \/ RunMicrotask
  \/ \E u \in Names, h \in 1..MaxMut : TimerFire(u, h)
  \/ Deliver
  \/ SubscriberThrows
  \/ EmitDone

SpecThrow == InitUnit /\ [][NextThrow]_vars

\* The container with per-unit subscriptions removed directly, whoever made them.
NextReIndex ==
  \/ BeginTurn
  \/ EndTurn
  \/ \E name \in Names : ComposeState(name)
  \/ SubscribeAll
  \/ \E g \in 1..MaxGlobal : UnsubscribeAll(g)
  \/ \E u \in Names : Cardinality(issued) < MaxContainerSubs /\ Subscribe(u)
  \/ \E u \in Names, id \in 1..(MaxIDs + MaxGlobal) : UnsubscribeDirect(u, id)
  \/ \E u \in Names :
       TopLevel /\ nmut < MaxDuplicateMut /\ Mutation(u, IMMEDIATE, "ok")
  \/ Deliver
  \/ EmitDone

SpecReIndex == Init /\ [][NextReIndex]_vars

\* One composed unit as in InitUnit, with what happens to it counted.
InitCount ==
  /\ order = <<1>>
  /\ instances = [u \in Names |-> IF u = 1 THEN [stored |-> 1, returned |-> {1}]
                                  ELSE [stored |-> 0, returned |-> {}]]
  /\ state = [u \in Names |-> [ref |-> 0, val |-> 0]]
  /\ initialState = [u \in Names |-> IF u = 1 THEN Clone([ref |-> 0, val |-> 0], 1)
                                     ELSE [ref |-> 0, val |-> 0]]
  /\ middleware = [u \in Names |-> IF u = 1 THEN ContainerMiddleware ELSE <<>>]
  /\ nested = [u \in Names |-> 0]
  /\ subs = [u \in Names |-> {}]
  /\ nextID = [u \in Names |-> 0]
  /\ task = [u \in Names |-> 0]
  /\ schedule = [u \in Names |-> 0]
  /\ timers = [u \in Names |-> {}]
  /\ subscriptions = [g \in 1..MaxGlobal |-> NoSubscription]
  /\ nextGlobal = 0
  /\ issued = {}
  /\ stack = <<>>
  /\ micro = <<>>
  /\ turn = "idle"
  /\ pending = <<>>
  /\ nmut = 0
  /\ dirty = [u \in Names |-> FALSE]
  /\ last = StepOf("init", 0, 0, 0, TRUE, <<>>, "none", {}, ZeroCount)

\* The mutations of unit u started so far.
Started(u) == last.count[u].mutations + last.count[u].failed
                + Cardinality({k \in DOMAIN pending : pending[k].unit = u})

\* The operations of one unit and the event loop, at most MaxMut mutations started.
NextCount ==
  \/ BeginTurn
  \/ EndTurn
  \/ \E u \in Names : Cardinality(issued) < MaxContainerSubs /\ Subscribe(u)
  \/ \E u \in Names, p \in Priorities, o \in {"ok", "throw"} :
       Started(u) < MaxMut /\ Mutation(u, p, o)
  \/ \E u \in Names, p \in Priorities : Started(u) < MaxMut /\ MutationAsync(u, p)
  \/ \E k \in 1..MaxPending, o \in {"ok", "reject"} : Settle(k, o)
  \/ \E u \in Names : Started(u) < MaxMut /\ Reset(u)
  \/ RunMicrotask
  \/ \E u \in Names, h \in 1..MaxMut : TimerFire(u, h)
  \/ Deliver
  \/ EmitDone

SpecCount == InitCount /\ [][NextCount]_vars

\* One unit of the compiled build: its mutations and subscriptions, called by
\* top-level code.
NextDist ==
  \/ BeginTurn
  \/ EndTurn
  \/ \E u \in Names : Subscribe(u)
  \/ \E u \in Names, id \in 1..(MaxIDs + MaxGlobal) : Unsubscribe(u, id)
  \/ \E u \in Names, method \in {"update", "reset", "wrapped"} : DistMutation(u, method)
  \/ \E u \in Names : DistMutationAsync(u)
  \/ \E k \in 1..MaxPending : DistSettle(k)

SpecDist == InitUnit /\ [][NextDist]_vars

\* ------------------------------------------------------------------ claims
\* Nothing of unit u is pending or running: no live timer, no queued microtask
\* and no flush in progress.
Quiescent(u) ==
  /\ timers[u] = {}
  /\ \A i \in DOMAIN micro : micro[i].unit # u
  /\ \A i \in DOMAIN stack : stack[i].unit # u

IsMutation(p) == last.op = "mutation" /\ last.priority = p
Succeeded == last.op \in {"mutation", "reset", "settle"} /\ last.ok

\* C1: when the timer of a batched window fires, the unit's subscribers are
\* notified by exactly one flush, and that flush carries the unit's state as of
\* the last mutation of the window.
C1_WindowNotifiedOnce ==
  last.op = "timer" =>
    /\ last.ok
    /\ Len(stack) = 1
    /\ Top.unit = last.unit /\ Top.lane = BATCHED
    /\ [ref |-> Top.arg, val |-> Top.aval] = state[last.unit]

\* C2: every successful batched mutation, issued by top-level code or by a
\* subscriber during a flush of the same unit, is eventually followed by a
\* notification: once nothing of the unit is pending any more, no successful
\* mutation is left without a flush that started after it.
C2_EventuallyNotified ==
  \A u \in Units : Quiescent(u) => ~dirty[u]

Pos(b) == CHOOSE i \in DOMAIN order : order[i] = b

\* C3: a unit b composed after subscribeAll(cb) has cb invoked by every flush
\* that follows a mutation of b, and every mutation of b is followed by a
\* flush, however many units existed when subscribeAll was called.
C3_ReIndexed ==
  /\ \A u \in Units : Quiescent(u) => ~dirty[u]
  /\ last.op = "emitDone" =>
       \A g \in 1..MaxGlobal :
         (subscriptions[g].tracked /\ Pos(last.unit) > subscriptions[g].n)
           => \E i \in DOMAIN last.trace : last.trace[i][2] = g

\* C4: no operation of the container or of a unit raises an exception in
\* normal use (distinct names, issued IDs, functions that do not throw).
C4_NoRaise == last.raised = "none"

NoDuplicates(sq) == \A i, j \in DOMAIN sq : sq[i] = sq[j] => i = j

\* C5: a successful priorityUpdate starts its flush before it returns, the
\* flush carries the state after that mutation, flushes start in the order
\* the mutations were issued, and a flush calls each subscriber once.
C5_ImmediateSynchronous ==
  /\ (IsMutation(IMMEDIATE) /\ last.ok) =>
       /\ stack # <<>>
       /\ Top.unit = last.unit /\ Top.lane = IMMEDIATE /\ Top.mut = last.id
       /\ Top.cursor = 0
       /\ [ref |-> Top.arg, val |-> Top.aval] = state[last.unit]
       /\ Top.aval = last.id
  /\ \A i \in DOMAIN stack :
       stack[i].lane = IMMEDIATE =>
         /\ stack[i].aval >= stack[i].mut
         /\ \A j \in DOMAIN stack :
              (i < j /\ stack[j].lane = IMMEDIATE) => stack[i].mut < stack[j].mut
  /\ (last.op = "emitDone" /\ last.priority = IMMEDIATE) =>
       /\ NoDuplicates(last.trace)
       /\ \A s \in subs[last.unit] : \E i \in DOMAIN last.trace : last.trace[i][1] = s.id

C5_Witness ==
  /\ last.op = "emitDone" /\ last.priority = IMMEDIATE
  /\ Len(last.trace) = 2
  /\ Len(stack) = 1 /\ Top.lane = IMMEDIATE

\* C6: a flush through the immediate or the microtask lane clears the unit's
\* outstanding timer, and a timer that fires with a task always notifies of a
\* mutation that no flush has covered yet (never a second, stale notification).
C6_TimerSuperseded ==
  /\ ((IsMutation(IMMEDIATE) /\ last.ok) \/ last.op = "microtask") =>
       schedule[last.unit] = 0 /\ timers[last.unit] = {}
  /\ (last.op = "timer" /\ last.ok) => last.was.dirty
  /\ \A u \in Names : timers[u] # {} => dirty[u]

C6_Witness ==
  /\ last.op = "microtask"
  /\ last.was.schedule # 0 /\ last.was.task # 0
  /\ timers[last.unit] = {}

\* C7: backgroundUpdate calls no subscriber before it returns; its flush runs
\* as a task of its own after the script has returned, and no timer callback
\* runs while one is still queued.
C7_MicrotaskDeferred ==
  /\ (IsMutation(MICROTASK) /\ last.ok) =>
       /\ \A i \in DOMAIN stack : stack[i].mut # last.id
       /\ micro # <<>> /\ micro[Len(micro)] = [unit |-> last.unit, mut |-> last.id]
  /\ \A i \in DOMAIN stack : stack[i].lane = MICROTASK => (i = 1 /\ turn = "idle")
  /\ last.op = "timer" => micro = <<>>

C7_Witness ==
  /\ last.op = "notify" /\ last.priority = MICROTASK
  /\ last.was.dirty = FALSE
  /\ Len(micro) = 1

\* C8: microtask notifications are not coalesced: each successful
\* backgroundUpdate queues its own microtask, and each microtask starts one
\* flush that carries the unit's state as it is when the microtask runs.
C8_MicrotaskNotCoalesced ==
  /\ (IsMutation(MICROTASK) /\ last.ok) =>
       /\ micro # <<>> /\ micro[Len(micro)] = [unit |-> last.unit, mut |-> last.id]
       /\ Len(micro) >= 1 + Cardinality({i \in DOMAIN micro : micro[i].mut < last.id})
  /\ NoDuplicates(micro)
  /\ last.op = "microtask" =>
       /\ Len(stack) = 1
       /\ Top.unit = last.unit /\ Top.lane = MICROTASK /\ Top.mut = last.id
       /\ [ref |-> Top.arg, val |-> Top.aval] = state[last.unit]

C8_Witness ==
  /\ last.op = "microtask"
  /\ Len(micro) = 1 /\ micro[1].unit = last.unit
  /\ state[last.unit].val = micro[1].mut
  /\ subs[last.unit] # {}

Phase(e) ==
  CASE e[1] = "onBeforeUpdate" -> 1
    [] e[1] = "func" -> 2
    [] e[1] = "onUpdate" -> 3
    [] OTHER -> 4

\* C9: a successful mutation runs onBeforeUpdate of every middleware, then the
\* mutation body, then onUpdate of every middleware, then hands the
\* notification task to the scheduler; no flush for it starts earlier.
C9_LifecycleOrder ==
  /\ Succeeded =>
       /\ \A i, j \in DOMAIN last.trace : i < j => Phase(last.trace[i]) <= Phase(last.trace[j])
       /\ \A m \in Range(middleware[last.unit]) :
            /\ Count(last.trace, <<"onBeforeUpdate", m>>) = 1
            /\ Count(last.trace, <<"onUpdate", m>>) = 1
       /\ Count(last.trace, <<"func", last.id>>) = 1
       /\ Count(last.trace, <<"scheduleTask", last.priority>>) = 1
       /\ Len(last.trace) = 2 * Len(middleware[last.unit]) + 2
       /\ \A i \in DOMAIN stack : stack[i].mut = last.id => stack[i].cursor = 0
  /\ \A i \in DOMAIN stack : stack[i].mut <= nmut
  /\ \A i \in DOMAIN micro : micro[i].mut <= nmut

C9_Witness ==
  /\ Succeeded /\ last.priority = IMMEDIATE
  /\ subs[last.unit] # {}
  /\ Len(stack) = 2

\* C10: when the mutation function throws, the onBeforeUpdate hooks have run,
\* no onUpdate hook runs, no notification task reaches the scheduler, and the
\* caller gets the exception.
C10_ThrowSkipsUpdate ==
  (last.op = "mutation" /\ ~last.ok) =>
    /\ last.raised = "user"
    /\ \A m \in Range(middleware[last.unit]) : Count(last.trace, <<"onBeforeUpdate", m>>) = 1
    /\ \A i \in DOMAIN last.trace : Phase(last.trace[i]) <= 2
    /\ task[last.unit] = last.was.task
    /\ schedule[last.unit] = last.was.schedule
    /\ dirty[last.unit] = last.was.dirty
    /\ \A i \in DOMAIN micro : micro[i].mut # last.id
    /\ \A i \in DOMAIN stack : stack[i].mut # last.id
    /\ \A u \in Names : \A h \in timers[u] : h # last.id

C10_Witness ==
  /\ last.op = "mutation" /\ ~last.ok
  /\ last.was.schedule # 0
  /\ micro # <<>>

\* The notification task of mutation id of unit u is with the scheduler: its
\* flush has started, or its microtask is queued, or the unit's timer stands
\* for it.
Handed(u, id, priority) ==
  CASE priority = IMMEDIATE -> stack # <<>> /\ Top.unit = u /\ Top.mut = id
    [] priority = MICROTASK -> micro # <<>> /\ micro[Len(micro)] = [unit |-> u, mut |-> id]
    [] OTHER -> task[u] # 0 /\ schedule[u] \in timers[u] /\ dirty[u]

\* The step left the unit's scheduler, the microtask queue and the stack of
\* flushes as it found them.
NothingScheduled ==
  /\ task[last.unit] = last.was.task
  /\ schedule[last.unit] = last.was.schedule
  /\ dirty[last.unit] = last.was.dirty
  /\ Len(micro) = last.was.micro
  /\ Len(stack) = last.was.depth

\* C11: when the mutation function returns a pending promise, the call runs
\* the onBeforeUpdate hooks only and hands nothing to the scheduler; while the
\* promise is pending no onUpdate hook has run for it; and the promise the
\* caller holds completes in the step in which, after the function's result,
\* every onUpdate hook has run and the task has been handed to the scheduler.
C11_AsyncDeferred ==
  /\ last.op = "mutationAsync" =>
       /\ \A i \in DOMAIN last.trace : Phase(last.trace[i]) = 1
       /\ NothingScheduled
       /\ Len(pending) = last.was.pending + 1
       /\ pending[Len(pending)].unit = last.unit
  /\ \A k \in DOMAIN pending :
       \A i \in DOMAIN pending[k].trace : Phase(pending[k].trace[i]) = 1
  /\ (last.op = "settle" /\ last.ok) =>
       /\ Len(pending) = last.was.pending - 1
       /\ \A m \in Range(middleware[last.unit]) : Count(last.trace, <<"onUpdate", m>>) = 1
       /\ last.trace[Len(last.trace)] = <<"scheduleTask", last.priority>>
       /\ \A i, j \in DOMAIN last.trace : i < j => Phase(last.trace[i]) <= Phase(last.trace[j])
       /\ Handed(last.unit, last.id, last.priority)

C11_Witness ==
  /\ last.op = "settle" /\ last.ok
  /\ last.priority = IMMEDIATE
  /\ subs[last.unit] # {}
  /\ last.was.schedule # 0

\* C12: when the promise of a mutation function rejects, no onUpdate hook
\* runs for that mutation, nothing is handed to the scheduler, and the promise
\* the caller holds rejects.
C12_RejectSkipsUpdate ==
  (last.op = "settle" /\ ~last.ok) =>
    /\ last.raised = "rejected"
    /\ \A i \in DOMAIN last.trace : Phase(last.trace[i]) = 1
    /\ NothingScheduled
    /\ Len(pending) = last.was.pending - 1
    /\ \A i \in DOMAIN micro : micro[i].mut <= nmut
    /\ \A u \in Names : \A h \in timers[u] : h <= nmut

C12_Witness ==
  /\ last.op = "settle" /\ ~last.ok
  /\ last.was.schedule # 0 /\ last.was.task # 0
  /\ subs[last.unit] # {}

Reverse(sq) == [i \in 1..Len(sq) |-> sq[Len(sq) + 1 - i]]

\* The middleware whose hook `event` a step invoked, in the order of the calls.
Hooks(tr, event) ==
  LET IsEvent(e) == e[1] = event
      sel == SelectSeq(tr, IsEvent)
  IN [i \in 1..Len(sel) |-> sel[i][2]]

\* C13: with the unit's middleware registered in the order m1, ..., mn
\* (the container's at compose time, then registerMiddleware calls), a
\* mutation invokes onBeforeUpdate on mn, ..., m1 in that order (the
\* middleware registered when it was called), and a successful one invokes
\* onUpdate on mn, ..., m1 in that order; a failed one invokes no onUpdate.
C13_ReverseRegistrationOrder ==
  /\ last.op \in {"mutation", "reset", "mutationAsync"} =>
       Hooks(last.trace, "onBeforeUpdate") = Reverse(middleware[last.unit])
  /\ last.op = "settle" =>
       \E k \in 0..Len(middleware[last.unit]) :
         Hooks(last.trace, "onBeforeUpdate") = Reverse(SubSeq(middleware[last.unit], 1, k))
  /\ Succeeded => Hooks(last.trace, "onUpdate") = Reverse(middleware[last.unit])
  /\ (last.op \in {"mutation", "settle"} /\ ~last.ok) => Hooks(last.trace, "onUpdate") = <<>>

C13_Witness ==
  /\ last.op = "settle" /\ last.ok
  /\ middleware[last.unit] = <<1, 2, 3>>
  /\ Hooks(last.trace, "onBeforeUpdate") = <<2, 1>>
  /\ Hooks(last.trace, "onUpdate") = <<3, 2, 1>>

\* C14: after reset the unit's state is structurally equal to the value
\* supplied at construction (its entries and the structures nested inside
\* it), whatever mutations and resets came before.
C14_ResetRestores ==
  last.op = "reset" =>
    /\ state[last.unit].val = 0
    /\ nested[last.unit] = 0

IDs(S) == {x.id : x \in S}

\* C15: unsubscribe(ID) with an ID that subscribe returned removes that
\* subscriber and no other; a flush never calls a callback that is not
\* subscribed at the time of the call, IDs are never issued twice, and a flush
\* that ends has called every subscriber the unit still has.
C15_UnsubscribedNeverCalled ==
  /\ last.op = "unsubscribe" =>
       /\ last.id \notin IDs(subs[last.unit])
       /\ subs[last.unit] = {x \in last.was.subs : x.id # last.id}
  /\ last.op = "notify" => last.id \in IDs(subs[last.unit])
  /\ \A u \in Names :
       /\ \A x \in subs[u] : x.id <= nextID[u]
       /\ \A i \in issued : i[1] = u => i[2] <= nextID[u]
  /\ last.op = "emitDone" =>
       \A x \in subs[last.unit] : \E i \in DOMAIN last.trace : last.trace[i][1] = x.id

C15_Witness ==
  /\ last.op = "notify"
  /\ \E i \in issued : i[1] = last.unit /\ i[2] < last.id /\ i[2] \notin IDs(subs[last.unit])
  /\ last.id \in {i[2] : i \in issued}

\* C16: a callback unsubscribed while a batched or microtask mutation awaits
\* its flush is gone before the flush starts, and a flush of those lanes calls
\* only callbacks that were subscribed when it started and still are when
\* their turn comes.
C16_UnsubscribedBeforeFlush ==
  /\ (last.op = "unsubscribe" /\ last.was.dirty /\ last.was.depth = 0) =>
       last.id \notin IDs(subs[last.unit])
  /\ (last.op \in {"microtask", "timer"} /\ last.ok) =>
       /\ Top.present = IDs(subs[last.unit])
       /\ Top.called = <<>>
  /\ \A f \in DOMAIN stack :
       stack[f].lane # IMMEDIATE =>
         \A c \in DOMAIN stack[f].called : stack[f].called[c][1] \in stack[f].present
  /\ (last.op = "notify" /\ last.priority # IMMEDIATE) =>
       /\ last.id \in IDs(subs[last.unit])
       /\ last.id \in Top.present

C16_Witness ==
  /\ last.op \in {"microtask", "timer"} /\ last.ok
  /\ Top.present # {}
  /\ \E i \in issued : i[1] = last.unit /\ i[2] \notin Top.present
  /\ turn = "idle"

\* C17: unsubscribeAll(id) with an ID that subscribeAll returned leaves id
\* untracked and its callback subscribed to no unit; from then on no unit
\* holds the callback (also units composed later), and a flush calls a
\* container callback only while its ID is tracked.
C17_UnsubscribeAllRemoves ==
  /\ last.op = "unsubscribeAll" =>
       /\ ~subscriptions[last.id].tracked
       /\ subscriptions[last.id].list = <<>>
       /\ \A u \in Names : \A x \in subs[u] : x.listener # last.id
  /\ \A g \in 1..nextGlobal :
       ~subscriptions[g].tracked => \A u \in Names : \A x \in subs[u] : x.listener # g
  /\ last.op = "notify" =>
       LET l == Top.called[Len(Top.called)][2]
       IN l # 0 => subscriptions[l].tracked

C17_Witness ==
  /\ last.op = "emitDone"
  /\ nextGlobal = 2 /\ ~subscriptions[1].tracked
  /\ issued = {}
  /\ Len(last.trace) = 1 /\ last.trace[1][1] = 2 /\ last.trace[1][2] = 2
  /\ Len(order) = 2

\* C18: while container subscription g is tracked, every flush of a unit that
\* existed when subscribeAll made g calls g's callback, once, with the
\* container's state record; callbacks of State.subscribe get the unit's state.
C18_SubscribeAllNotified ==
  /\ last.op = "emitDone" =>
       \A g \in 1..MaxGlobal :
         (subscriptions[g].tracked /\ Pos(last.unit) <= subscriptions[g].n) =>
           /\ Cardinality({i \in DOMAIN last.trace : last.trace[i][2] = g}) = 1
           /\ \A i \in DOMAIN last.trace :
                last.trace[i][2] = g => last.trace[i][3].kind = "container"
  /\ \A f \in DOMAIN stack : \A c \in DOMAIN stack[f].called :
       stack[f].called[c][3].kind =
         (IF stack[f].called[c][2] = 0 THEN "unit" ELSE "container")
  /\ \A g \in 1..MaxGlobal :
       subscriptions[g].tracked =>
         \A k \in 1..subscriptions[g].n :
           \E x \in subs[order[k]] : x.listener = g

C18_Witness ==
  /\ last.op = "emitDone"
  /\ \E g \in 1..MaxGlobal :
       /\ subscriptions[g].tracked
       /\ Pos(last.unit) <= subscriptions[g].n
       /\ Len(order) > subscriptions[g].n
       /\ \E i \in DOMAIN last.trace : last.trace[i][2] = g
  /\ \E i \in DOMAIN last.trace : last.trace[i][2] = 0

\* C19: composeState with a name the container already holds is rejected:
\* the call raises, and the unit stored under the name keeps its state, its
\* subscribers and its place in the container-level subscription lists.
C19_DuplicateRejected ==
  (last.op = "composeState" /\ last.trace # <<>>) =>
    /\ last.raised = "Error"
    /\ subs[last.unit] = last.was.subs
    /\ \A g \in 1..MaxGlobal :
         \A i \in DOMAIN subscriptions[g].list :
           subscriptions[g].list[i][1] = last.unit =>
             subscriptions[g].list[i][2] \in IDs(subs[last.unit])

\* C20: Galena.get(name) for a name that was not composed returns no unit and
\* changes nothing: the container's units, every unit's state, middleware and
\* subscribers, the schedulers and the container-level subscriptions are as
\* they were before the lookup.
C20_GetFabricatesNothing ==
  [][(last'.op = "get" /\ last'.unit \notin Units) =>
       /\ ~last'.ok
       /\ last'.raised = "none"
       /\ UNCHANGED <<order, instances, state, initialState, middleware, nested, subs, nextID,
                      task, schedule, timers, subscriptions, nextGlobal, issued>>]_vars

C20_Witness ==
  /\ last.op = "get" /\ last.unit \notin Units /\ ~last.ok
  /\ Units # {}
  /\ \E g \in 1..MaxGlobal : subscriptions[g].tracked /\ subscriptions[g].list # <<>>

\* C21: State.unsubscribe with an ID that names no subscription of the unit
\* and Galena.unsubscribeAll with an ID that is not tracked raise nothing and
\* change no subscription, per-unit or container-level; and after either
\* call the ID names nothing, so a second call with it is such a call.
C21_UnknownIDNoOp ==
  [][/\ (last'.op = "unsubscribe" /\ last'.id \notin IDs(subs[last'.unit])) =>
          /\ last'.raised = "none" /\ ~last'.ok
          /\ UNCHANGED <<subs, nextID, issued, subscriptions, nextGlobal, order>>
     /\ (last'.op = "unsubscribeAll" /\ ~subscriptions[last'.id].tracked) =>
          /\ last'.raised = "none" /\ ~last'.ok
          /\ UNCHANGED <<subs, nextID, issued, subscriptions, nextGlobal, order>>
     /\ last'.op = "unsubscribe" => last'.id \notin IDs(subs'[last'.unit])
     /\ last'.op = "unsubscribeAll" => ~subscriptions'[last'.id].tracked]_vars

C21_Witness ==
  /\ last.op = "unsubscribeAll" /\ ~last.ok
  /\ last.id <= nextGlobal
  /\ \E g \in 1..MaxGlobal : subscriptions[g].tracked /\ subscriptions[g].list # <<>>
  /\ \E i \in issued : i[2] \notin IDs(subs[i[1]])

\* Unit b is left as it was by the step: its state, its subscribers and its
\* scheduler.
Untouched(b) ==
  /\ state'[b] = state[b] /\ initialState'[b] = initialState[b] /\ nested'[b] = nested[b]
  /\ subs'[b] = subs[b]
  /\ task'[b] = task[b] /\ schedule'[b] = schedule[b] /\ timers'[b] = timers[b]
  /\ dirty'[b] = dirty[b]

\* C22: a mutation of unit A and the flush that notifies of it leave every
\* other unit's state, subscribers, recorded task and timer unchanged, and the
\* flush calls only callbacks subscribed to A: a callback of State.subscribe
\* whose ID was issued by A, or a container callback with a pair tracked for A.
C22_UnitIsolation ==
  [][/\ last'.op \in {"mutation", "reset", "settle", "mutationAsync", "timer", "microtask",
                      "notify", "emitDone"} =>
          \A b \in Names \ {last'.unit} : Untouched(b)
     /\ last'.op = "notify" =>
          LET f == stack'[Len(stack')]
              e == f.called[Len(f.called)]
          IN /\ f.unit = last'.unit
             /\ IF e[2] = 0
                  THEN <<f.unit, e[1]>> \in issued
                  ELSE \E i \in DOMAIN subscriptions[e[2]].list :
                         subscriptions[e[2]].list[i] = <<f.unit, e[1]>>]_vars

C22_Witness ==
  /\ last.op = "mutation" /\ last.ok
  /\ \E b \in Units \ {last.unit} :
       /\ timers[b] # {} /\ task[b] # 0
       /\ subs[b] # {}
       /\ state[b].val # 0
  /\ subs[last.unit] # {}

\* C23: every composed unit holds the container's middleware (registered
\* first, in the container's order), every mutation of a unit invokes
\* onBeforeUpdate, and on success onUpdate, once on each of them, the hooks it
\* invokes belong to middleware registered on that unit, and a middleware
\* handed to registerMiddleware of one unit is held by no other unit.
C23_ContainerMiddlewareEverywhere ==
  /\ \A u \in Units :
       /\ Len(middleware[u]) >= Len(ContainerMiddleware)
       /\ SubSeq(middleware[u], 1, Len(ContainerMiddleware)) = ContainerMiddleware
  /\ last.op \in {"mutation", "reset"} =>
       /\ \A m \in Range(ContainerMiddleware) :
            /\ Count(last.trace, <<"onBeforeUpdate", m>>) = 1
            /\ Count(last.trace, <<"onUpdate", m>>) = (IF last.ok THEN 1 ELSE 0)
       /\ \A i \in DOMAIN last.trace :
            last.trace[i][1] \in {"onBeforeUpdate", "onUpdate"} =>
              last.trace[i][2] \in Range(middleware[last.unit])
  /\ \A m \in MiddlewareIDs \ Range(ContainerMiddleware) :
       Cardinality({u \in Names : m \in Range(middleware[u])}) <= 1

C23_Witness ==
  /\ last.op = "mutation" /\ last.ok
  /\ Len(middleware[last.unit]) = Len(ContainerMiddleware)
  /\ \E b \in Units \ {last.unit} : Len(middleware[b]) > Len(ContainerMiddleware)

\* C24: the unit composeState returned under a name is the unit the container
\* holds under that name, from the moment composeState returns and for good:
\* get(name) returns it, and Galena.update, backgroundUpdate and
\* priorityUpdate, which call get(name), act on it, so the state read through
\* the container is the state read through the handle.
C24_HandleIsContainerUnit ==
  /\ \A name \in Names : \A k \in instances[name].returned : k = instances[name].stored
  /\ (last.op = "composeState" /\ last.ok) =>
       instances[last.unit].stored \in instances[last.unit].returned
  /\ (last.op = "get" /\ last.ok) =>
       /\ last.id = instances[last.unit].stored
       /\ instances[last.unit].returned \subseteq {last.id}

\* C25: a unit never has more than one outstanding batched-lane timer, and
\* the one it has is the one its scheduler holds the handle of.
C25_OneTimer ==
  \A u \in Names :
    /\ Cardinality(timers[u]) <= 1
    /\ timers[u] \subseteq {schedule[u]}
    /\ schedule[u] # 0 => schedule[u] \in timers[u]

C25_Witness ==
  /\ last.op = "mutation" /\ last.ok /\ last.priority = BATCHED
  /\ last.was.schedule # 0
  /\ schedule[last.unit] # last.was.schedule
  /\ timers[last.unit] = {schedule[last.unit]}

\* C26: with distinct names and no tracked per-unit subscription removed
\* directly, the list of every tracked container subscription holds exactly
\* one pair for every unit of the container, each naming a live subscription of
\* its callback, so a flush of any unit calls the callback exactly once.
C26_ListsCoverAllUnits ==
  /\ \A g \in 1..MaxGlobal :
       subscriptions[g].tracked =>
         /\ Len(subscriptions[g].list) = Len(order)
         /\ \A u \in Units :
              /\ Cardinality({i \in DOMAIN subscriptions[g].list :
                                subscriptions[g].list[i][1] = u}) = 1
              /\ Cardinality({x \in subs[u] : x.listener = g}) = 1
              /\ \A x \in subs[u] :
                   x.listener = g =>
                     \E i \in DOMAIN subscriptions[g].list :
                       subscriptions[g].list[i] = <<u, x.id>>
  /\ last.op = "emitDone" =>
       \A g \in 1..MaxGlobal :
         subscriptions[g].tracked =>
           Cardinality({i \in DOMAIN last.trace : last.trace[i][2] = g}) = 1

\* C27: after Empire.destroy the container holds no unit and no container
\* subscription, and no callback registered before the destroy, on a unit or
\* on the container, is called by a later update made through a handle
\* created before.
C27_DestroyTearsDown ==
  /\ last.op = "destroy" =>
       /\ order = <<>>
       /\ \A u \in Names : instances[u].stored = 0
       /\ \A g \in 1..MaxGlobal : ~subscriptions[g].tracked
  /\ \A f \in DOMAIN stack : \A c \in DOMAIN stack[f].called :
       <<stack[f].unit, stack[f].called[c][1]>> \notin last.destroyed
  /\ last.op = "emitDone" =>
       \A c \in DOMAIN last.trace : <<last.unit, last.trace[c][1]>> \notin last.destroyed

\* An update through a handle made before the destroy has notified: the unit
\* had subscribers of both kinds when the container was destroyed, and the
\* update called the one subscribed since.
C27_Witness ==
  /\ last.op = "emitDone"
  /\ instances[last.unit].stored = 0
  /\ instances[last.unit].returned # {}
  /\ \E p \in last.destroyed : p[1] = last.unit /\ <<p[1], p[2]>> \in issued
  /\ \E p \in last.destroyed : p[1] = last.unit /\ <<p[1], p[2]>> \notin issued
  /\ Len(last.trace) = 1

\* C28: a unit's timer is outstanding only while a task is recorded, also
\* when a subscriber issues a batched mutation during a flush of the same
\* unit, so every timer that fires executes a task.
C28_TimerImpliesTask ==
  /\ \A u \in Names :
       timers[u] # {} => task[u] # 0
  /\ last.op = "timer" => last.ok

\* C29: a batched schedule request that finds a recorded task and an
\* outstanding timer changes neither: the same task, the same timer handle,
\* still outstanding, and no other timer.
C29_CoalescedNoEffect ==
  (Succeeded /\ last.priority = BATCHED /\ last.was.task # 0 /\ last.was.schedule # 0) =>
    /\ task[last.unit] = last.was.task
    /\ schedule[last.unit] = last.was.schedule
    /\ timers[last.unit] = {last.was.schedule}
    /\ Len(micro) = last.was.micro /\ Len(stack) = last.was.depth

C29_Witness ==
  /\ Succeeded /\ last.priority = BATCHED
  /\ last.was.task # 0 /\ last.was.schedule # 0
  /\ last.id > last.was.task + 1
  /\ subs[last.unit] # {}

\* C30: a deferred flush passes the subscribers the unit's state as it is
\* when the flush starts, the object and its contents, whatever mutation
\* made the task; every subscriber of the flush is called with that object.
C30_LiveStateAtFlush ==
  /\ (last.op \in {"timer", "microtask"} /\ last.ok) =>
       /\ Top.arg = state[last.unit].ref
       /\ Top.aval = state[last.unit].val
  /\ \A f \in DOMAIN stack : \A c \in DOMAIN stack[f].called :
       stack[f].called[c][2] = 0 =>
         stack[f].called[c][3] = [kind |-> "unit", ref |-> stack[f].arg]

C30_Witness ==
  /\ last.op = "timer" /\ last.ok
  /\ state[last.unit].ref > Top.mut + 1
  /\ Top.arg = state[last.unit].ref
  /\ subs[last.unit] # {}

\* A window of unit u is open: a task is recorded, its timer is live, and no
\* flush of u is in progress.
Window(u) ==
  /\ task[u] # 0
  /\ schedule[u] \in timers[u]
  /\ \A i \in DOMAIN stack : stack[i].unit # u

\* A flush of unit u starts in this step, with the state u has after the step.
FlushStarts(u) ==
  /\ Len(stack') = Len(stack) + 1
  /\ stack'[Len(stack')].unit = u
  /\ stack'[Len(stack')].cursor = 0
  /\ [ref |-> stack'[Len(stack')].arg, val |-> stack'[Len(stack')].aval] = state'[u]

C32_ResetLifecycle ==
  /\ last.op = "reset" =>
       /\ last.ok /\ last.priority = BATCHED
       /\ last.trace = LifeCycleEvent(middleware[last.unit], "onBeforeUpdate")
                         \o <<<<"func", last.id>>>>
                         \o LifeCycleEvent(middleware[last.unit], "onUpdate")
                         \o <<<<"scheduleTask", BATCHED>>>>
       /\ state[last.unit].ref # initialState[last.unit].ref
       /\ state[last.unit].val = initialState[last.unit].val
       /\ task[last.unit] # 0 /\ schedule[last.unit] \in timers[last.unit]
       /\ dirty[last.unit]
       /\ Len(stack) = last.was.depth /\ Len(micro) = last.was.micro
       /\ (last.was.task # 0 /\ last.was.schedule # 0) =>
            /\ task[last.unit] = last.was.task
            /\ schedule[last.unit] = last.was.schedule
  /\ (last.op = "timer" /\ last.ok) => [ref |-> Top.arg, val |-> Top.aval] = state[last.unit]
  /\ \A u \in Units : (Quiescent(u) /\ state[u].ref = nmut + 1) => ~dirty[u]

C34_InitialStateKept ==
  /\ [][\A u \in Units : initialState'[u] = initialState[u]]_vars
  /\ [](\A u \in Units : state[u].ref # initialState[u].ref)
  /\ [](last.op = "reset" =>
          /\ state[last.unit].ref # initialState[last.unit].ref
          /\ state[last.unit].ref = last.id + 1)

\* A mutation has written in place the object that a reset installed.
C34_Witness ==
  /\ last.op \in {"mutation", "settle"} /\ last.ok
  /\ state[last.unit].ref > 1
  /\ state[last.unit].val = last.id
  /\ initialState[last.unit].val = 0

\* The first pair of tracked subscription g names a subscription that is no
\* longer there.
FirstRemoved(g) ==
  /\ subscriptions[g].tracked
  /\ subscriptions[g].list # <<>>
  /\ subscriptions[g].list[1][2] \notin {x.id : x \in subs[subscriptions[g].list[1][1]]}

\* C35: when a tracked container subscription has lost the subscription on
\* its first tracked unit to a direct unsubscribe, composeState does not raise,
\* that container subscription keeps its list as it is and gets no
\* subscription on the new unit, and every other tracked container
\* subscription is extended by one pair naming a subscription of its listener
\* on the new unit.
C35_RemovedFirstNotExtended ==
  [][(last'.op = "composeState" /\ \E h \in 1..MaxGlobal : FirstRemoved(h)) =>
       /\ last'.ok /\ last'.raised = "none"
       /\ \A g \in 1..MaxGlobal :
            subscriptions[g].tracked =>
              IF FirstRemoved(g)
                THEN /\ subscriptions'[g] = subscriptions[g]
                     /\ \A x \in subs'[last'.unit] : x.listener # g
                ELSE /\ Len(subscriptions'[g].list) = Len(subscriptions[g].list) + 1
                     /\ SubSeq(subscriptions'[g].list, 1, Len(subscriptions[g].list))
                          = subscriptions[g].list
                     /\ LET pair == subscriptions'[g].list[Len(subscriptions'[g].list)]
                        IN /\ pair[1] = last'.unit
                           /\ [id |-> pair[2], listener |-> g] \in subs'[last'.unit]]_vars

\* C36: hooks are called per mutation, not per notification.  For every
\* middleware of a unit, onUpdate has been called once per mutation that
\* succeeded, and onBeforeUpdate once per mutation that was started (those
\* that succeeded, those that failed and those whose promise is pending): the
\* onUpdate count never exceeds the onBeforeUpdate count, and they are equal
\* when every started mutation has completed successfully; a flush adds to
\* neither count and calls each subscriber once.
C36_HooksPerMutation ==
  /\ \A u \in Units : \A m \in Range(middleware[u]) :
       /\ last.count[u].after[m] = last.count[u].mutations
       /\ last.count[u].before[m] = Started(u)
       /\ last.count[u].after[m] <= last.count[u].before[m]
       /\ (last.count[u].failed = 0 /\ \A k \in DOMAIN pending : pending[k].unit # u)
            => last.count[u].after[m] = last.count[u].before[m]
  /\ (last.op = "emitDone" /\ last.priority = BATCHED) => NoDuplicates(last.trace)

\* Two batched mutations of one window have been notified by one flush: each
\* hook was called twice and the subscriber once.
C36_Witness ==
  /\ last.op = "emitDone" /\ last.priority = BATCHED
  /\ last.count[last.unit].mutations = 2 /\ last.count[last.unit].failed = 0
  /\ last.count[last.unit].before = [m \in Range(ContainerMiddleware) |-> 2]
  /\ last.count[last.unit].after = [m \in Range(ContainerMiddleware) |-> 2]
  /\ last.count[last.unit].flushes = 1
  /\ last.count[last.unit].calls = 1
  /\ pending = <<>>

\* C37: no spurious notification.  While no mutation of a unit has succeeded,
\* no flush of the unit has started and none of its subscribers was called;
\* the flushes of a unit, those in progress included, are never more than its
\* successful mutations; and a timer that fires with no task recorded starts
\* no flush.
C37_NoSpuriousNotification ==
  /\ \A u \in Units :
       LET flushing == Cardinality({i \in DOMAIN stack : stack[i].unit = u})
       IN /\ last.count[u].mutations = 0 =>
               (flushing = 0 /\ last.count[u].flushes = 0 /\ last.count[u].calls = 0)
          /\ last.count[u].flushes + flushing <= last.count[u].mutations
  /\ (last.op = "timer" /\ last.was.task = 0) => (~last.ok /\ stack = <<>>)

\* A timer has fired with no task recorded on a unit that has a subscriber.
C37_Witness ==
  /\ last.op = "timer" /\ last.was.task = 0
  /\ subs[last.unit] # {}
  /\ last.count[last.unit].mutations = 2
  /\ last.count[last.unit].flushes = 1

\* C38: the callbacks a flush calls are those subscribed when it runs, not
\* those subscribed when the mutation was made: a flush starts with every
\* callback subscribed at that moment to call, a callback subscribed while
\* the window was open included; when it returns it has called every callback
\* that is still subscribed; and each call passes the object that was the
\* unit's state when the flush started.
C38_SubscribedAtFlushTime ==
  /\ [][\A u \in Names :
          FlushStarts(u) =>
            /\ stack'[Len(stack')].present = IDs(subs[u])
            /\ stack'[Len(stack')].called = <<>>
            /\ subs'[u] = subs[u]]_vars
  /\ [](last.op = "emitDone" =>
          \A x \in subs[last.unit] : \E i \in DOMAIN last.trace : last.trace[i][1] = x.id)
  /\ [](\A f \in DOMAIN stack : \A c \in DOMAIN stack[f].called :
          /\ stack[f].called[c][1] \in stack[f].present
          /\ stack[f].called[c][3] = ListenerArg(stack[f].called[c][2], stack[f].arg))

\* A callback has been subscribed while a batched mutation awaits its timer.
C38_Witness ==
  /\ last.op = "subscribe"
  /\ last.was.dirty /\ last.was.task # 0 /\ last.was.schedule # 0
  /\ Window(last.unit)
  /\ last.id \in IDs(subs[last.unit])
  /\ Cardinality(subs[last.unit]) = 2

\* C39: unsubscribeAll(id) removes from each unit exactly the subscriptions
\* that id tracks and leaves every other entry of the container's map as it
\* is: the listeners of other subscribeAll calls and the callbacks subscribed
\* directly stay, and a flush that returns has called every one of them.
C39_UnsubscribeAllOnlyTracked ==
  /\ [][last'.op = "unsubscribeAll" =>
          /\ \A u \in Names :
               subs'[u] = {x \in subs[u] :
                             <<u, x.id>> \notin Range(subscriptions[last'.id].list)}
          /\ \A u \in Names : \A x \in subs[u] : x.listener # last'.id => x \in subs'[u]
          /\ \A h \in 1..MaxGlobal : h # last'.id => subscriptions'[h] = subscriptions[h]]_vars
  /\ [](last.op = "emitDone" =>
          \A x \in subs[last.unit] : \E i \in DOMAIN last.trace :
            last.trace[i][1] = x.id /\ last.trace[i][2] = x.listener)

\* After an unsubscribeAll, a flush has called the listener of the other
\* subscribeAll call and a callback subscribed directly.
C39_Witness ==
  /\ last.op = "emitDone"
  /\ nextGlobal = 2
  /\ \E g \in 1..2 :
       /\ ~subscriptions[g].tracked
       /\ subscriptions[3 - g].tracked
       /\ \E i \in DOMAIN last.trace : last.trace[i][2] = 3 - g
       /\ \A i \in DOMAIN last.trace : last.trace[i][2] # g
  /\ \E i \in DOMAIN last.trace : last.trace[i][2] = 0

\* C40: in the compiled build a mutation is followed by a notification of the
\* unit's subscribers: once the script has returned and nothing of the unit
\* is queued or running, no mutation of a unit that has subscribers is left
\* without a flush.
C40_DistNotifies ==
  \A u \in Units :
    (turn = "idle" /\ Quiescent(u) /\ subs[u] # {}) => ~dirty[u]

====
